---- MODULE Spec2Model ----
(***************************************************************************)
(* The part-of-speech tagging project.                                     *)
(*                                                                         *)
(* The tag aggregator: AdvancedPOSTagger.tag_text, get_pos_statistics,     *)
(* extract_phrases and analyze_sentence_structure (src/pos_tagger.py).     *)
(* The spaCy pipeline is an external collaborator: its output for a text   *)
(* (the Doc, and the noun chunks it reports) is an input of the model.     *)
(*                                                                         *)
(* The web service (src/app.py): the handlers of /api/tag and of           *)
(* /api/samples/<id>, run by concurrent requests against the one tagger of *)
(* the module.  The sample database (src/data/mock_database.py) and the    *)
(* frequency charts (src/utils/visualizer.py, src/0106.py).                *)
(***************************************************************************)
EXTENDS Integers, Sequences, FiniteSets, TLC

VARIABLES
  \* one text through the methods of the tagger
  doc, tags, statistics, noun_chunks, phrases, structure,
  \* the spaCy models of the machine, the tagger, the requests of the service
  installed, requested, tagger, req,
  \* the frequency charts drawn from the tags
  bar_chart, dashboard, printed,
  \* the answers of the sample database and of /api/samples/<id>
  by_domain, by_language, by_id, sample_response,
  \* two searches of the database, an answer of /api/samples, a file saved
  \* and loaded
  searched, searched_again, listing, saved, reloaded,
  \* the dependency tree, the exported data and the statistics of the script
  dependency_tree, exported, enhanced

textVars == <<doc, tags, statistics, noun_chunks, phrases, structure>>

serviceVars == <<installed, requested, tagger, req>>

chartVars == <<bar_chart, dashboard, printed>>

dbVars == <<by_domain, by_language, by_id, sample_response>>

storeVars == <<searched, searched_again, listing, saved, reloaded>>

figureVars == <<dependency_tree, exported, enhanced>>

vars == <<textVars, serviceVars, chartVars, dbVars, storeVars, figureVars>>

-----------------------------------------------------------------------------
(* Bounds of the model. *)

\* longest token sequence of the word-varied documents
MaxWords == 4

\* longest token sequence of the parse-varied documents
MaxParsed == 3

\* most noun chunks the collaborator reports for one document
MaxChunks == 2

\* fractional bits kept of a float (a double keeps 52)
FracBits == 20

-----------------------------------------------------------------------------
(* Python values. *)

\* Python's None and a present value
None == <<>>

Some(x) == <<x>>

\* the outcome of a call: not made yet, returned a value, raised an exception
NotCalled == [kind |-> "not_called"]

Returned(v) == [kind |-> "returned", value |-> v]

Raised(e) == [kind |-> "raised", exception |-> e]

\* A dict is the sequence of its <<key, value>> items in insertion order.
EmptyDict == <<>>

DictKeys(d) == {d[k][1] : k \in 1..Len(d)}

DictHas(d, key) == key \in DictKeys(d)

\* d.get(key, default)
DictGet(d, key, default) ==
  IF DictHas(d, key)
    THEN LET k == CHOOSE k \in 1..Len(d) : d[k][1] = key IN d[k][2]
    ELSE default

\* d[key] = value
DictSet(d, key, value) ==
  IF DictHas(d, key)
    THEN [k \in 1..Len(d) |-> IF d[k][1] = key THEN <<key, value>> ELSE d[k]]
    ELSE Append(d, <<key, value>>)

\* sum(d.values())
RECURSIVE SumValues(_)
SumValues(d) == IF d = <<>> THEN 0 ELSE d[1][2] + SumValues(Tail(d))

\* sep.join(words)
RECURSIVE Join(_, _)
Join(words, sep) ==
  IF words = <<>> THEN ""
  ELSE IF Len(words) = 1 THEN words[1]
  ELSE words[1] \o sep \o Join(Tail(words), sep)

\* A float is kept as a whole number of 1/PctScale units, a binary fraction as
\* a double is, so that 1/4 and 1/2 are exact and 1/3 is rounded.
PctScale == 2 ^ FracBits

\* count / total as Python computes it, rounded to the nearest unit: the
\* whole part of the quotient and the rounded fraction of the remainder
FloatDiv(count, total) ==
  (count \div total) * PctScale
    + (2 * (count % total) * PctScale + total) \div (2 * total)

-----------------------------------------------------------------------------
(* The collaborator's output: what self.nlp(text) returns. *)

\* word analyses of the word-varied documents: surface text, coarse POS, the
\* lexical flags, the dependency label the word carries when it is not the
\* root, and token.prob, the log probability of the word in tenths ("%" is
\* flagged punctuation and tagged NOUN)
WordLexicon ==
  { [text |-> "The",   pos |-> "DET",   is_punct |-> FALSE, is_space |-> FALSE, dep |-> "det", prob |-> -35],
    [text |-> "quick", pos |-> "ADJ",   is_punct |-> FALSE, is_space |-> FALSE, dep |-> "amod", prob |-> -98],
    [text |-> "fox",   pos |-> "NOUN",  is_punct |-> FALSE, is_space |-> FALSE, dep |-> "nsubj", prob |-> -105],
    [text |-> "jumps", pos |-> "VERB",  is_punct |-> FALSE, is_space |-> FALSE, dep |-> "ccomp", prob |-> -117],
    [text |-> ".",     pos |-> "PUNCT", is_punct |-> TRUE,  is_space |-> FALSE, dep |-> "punct", prob |-> -30],
    [text |-> "%",     pos |-> "NOUN",  is_punct |-> TRUE,  is_space |-> FALSE, dep |-> "pobj", prob |-> -200],
    [text |-> " ",     pos |-> "SPACE", is_punct |-> FALSE, is_space |-> TRUE,  dep |-> "dep", prob |-> -200] }

\* word analyses of the parse-varied documents
ParseLexicon ==
  { [text |-> "is",      pos |-> "AUX",  is_punct |-> FALSE, is_space |-> FALSE, dep |-> "aux", prob |-> -42],
    [text |-> "been",    pos |-> "AUX",  is_punct |-> FALSE, is_space |-> FALSE, dep |-> "auxpass", prob |-> -60],
    [text |-> "running", pos |-> "VERB", is_punct |-> FALSE, is_space |-> FALSE, dep |-> "ccomp", prob |-> -99] }

\* the token sequences of length n over a lexicon
WordSeqs(lexicon, n) == [1..n -> lexicon]

\* h[i] is the position of token i's head; a root is its own head
RECURSIVE Ancestor(_, _, _)
Ancestor(h, i, k) == IF k = 0 THEN i ELSE Ancestor(h, h[i], k - 1)

\* the head assignments that are forests: every token reaches a root
Forests(n) ==
  {h \in [1..n -> 1..n] : \A i \in 1..n : LET r == Ancestor(h, i, n) IN h[r] = r}

\* every token but the first hangs from the first
FlatHeads(n) == [i \in 1..n |-> 1]

\* a parsed document: a root is labelled ROOT, another token carries its
\* word's label
ParsedDoc(words, h) ==
  [i \in 1..Len(words) |->
     [text |-> words[i].text, pos |-> words[i].pos,
      is_punct |-> words[i].is_punct, is_space |-> words[i].is_space,
      dep |-> IF h[i] = i THEN "ROOT" ELSE words[i].dep,
      head |-> h[i], prob |-> words[i].prob]]

\* a document of a pipeline without a dependency parse: no label is set and
\* every token is its own head
UnparsedDoc(words) ==
  [i \in 1..Len(words) |->
     [text |-> words[i].text, pos |-> words[i].pos,
      is_punct |-> words[i].is_punct, is_space |-> words[i].is_space,
      dep |-> "", head |-> i, prob |-> words[i].prob]]

\* self.nlp(text) may return d: a word-varied document with a flat parse, a
\* parse-varied document, or a document without a parse
IsDoc(d) ==
  \/ \E n \in 0..MaxWords : \E w \in WordSeqs(WordLexicon, n) :
       d = ParsedDoc(w, FlatHeads(n))
  \/ \E n \in 0..MaxParsed : \E h \in Forests(n) : \E w \in WordSeqs(ParseLexicon, n) :
       d = ParsedDoc(w, h)
  \/ \E n \in 1..MaxParsed : \E w \in WordSeqs(ParseLexicon, n) :
       d = UnparsedDoc(w)

-----------------------------------------------------------------------------
(* AdvancedPOSTagger.tag_text *)

\* getattr(token, 'prob', 0.8): a spaCy token always has the attribute
TokenProb(token) == token.prob

\* the tag of a token; confidence is in tenths, None when not asked for
POSTag(token, include_confidence) ==
  [word |-> token.text, pos |-> token.pos, is_punct |-> token.is_punct,
   is_space |-> token.is_space, dep |-> token.dep,
   confidence |-> IF include_confidence THEN Some(TokenProb(token)) ELSE None]

tag_text(d, include_confidence) ==
  [i \in 1..Len(d) |-> POSTag(d[i], include_confidence)]

-----------------------------------------------------------------------------
(* AdvancedPOSTagger.get_pos_statistics *)

\* the loop with total_words incremented for every tag, eligible or not
RECURSIVE CountTagsTotalAll(_, _, _)
CountTagsTotalAll(tgs, pos_counts, total_words) ==
  IF tgs = <<>> THEN <<pos_counts, total_words>>
  ELSE LET tag == Head(tgs) IN
    IF ~tag.is_space /\ ~tag.is_punct
      THEN CountTagsTotalAll(Tail(tgs),
                             DictSet(pos_counts, tag.pos, DictGet(pos_counts, tag.pos, 0) + 1),
                             total_words + 1)
      ELSE CountTagsTotalAll(Tail(tgs), pos_counts, total_words + 1)

\* the loop with the tokens filtered by their POS instead of their flags
RECURSIVE CountTagsByPos(_, _, _)
CountTagsByPos(tgs, pos_counts, total_words) ==
  IF tgs = <<>> THEN <<pos_counts, total_words>>
  ELSE LET tag == Head(tgs) IN
    IF tag.pos \notin {"SPACE", "PUNCT"}
      THEN CountTagsByPos(Tail(tgs),
                          DictSet(pos_counts, tag.pos, DictGet(pos_counts, tag.pos, 0) + 1),
                          total_words + 1)
      ELSE CountTagsByPos(Tail(tgs), pos_counts, total_words)

\* the loop over the tags: <<pos_counts, total_words>> after it
RECURSIVE CountTags(_, _, _)
CountTags(tgs, pos_counts, total_words) ==
  IF tgs = <<>> THEN <<pos_counts, total_words>>
  ELSE LET tag == Head(tgs) IN
    IF ~tag.is_space /\ ~tag.is_punct
      THEN CountTags(Tail(tgs),
                     DictSet(pos_counts, tag.pos, DictGet(pos_counts, tag.pos, 0) + 1),
                     total_words + 1)
      ELSE CountTags(Tail(tgs), pos_counts, total_words)

\* {pos: (count / total_words) * 100 for pos, count in pos_counts.items()}
PosPercentages(pos_counts, total_words) ==
  [k \in 1..Len(pos_counts) |->
     <<pos_counts[k][1], FloatDiv(pos_counts[k][2], total_words) * 100>>]

\* get_pos_statistics with 100 / total_words computed ahead of the percentages
EagerDivisionStatistics(tgs) ==
  LET counted == CountTags(tgs, EmptyDict, 0)
      pos_counts == counted[1]
      total_words == counted[2]
  IN IF total_words = 0
       THEN Raised("ZeroDivisionError")
       ELSE Returned([total_words |-> total_words,
                      pos_counts |-> pos_counts,
                      pos_percentages |-> PosPercentages(pos_counts, total_words),
                      unique_pos_tags |-> Len(pos_counts)])

get_pos_statistics(tgs) ==
  LET counted == CountTags(tgs, EmptyDict, 0)
      pos_counts == counted[1]
      total_words == counted[2]
  IN IF pos_counts # EmptyDict /\ total_words = 0
       THEN Raised("ZeroDivisionError")
       ELSE Returned([total_words |-> total_words,
                      pos_counts |-> pos_counts,
                      pos_percentages |-> PosPercentages(pos_counts, total_words),
                      unique_pos_tags |-> Len(pos_counts)])

-----------------------------------------------------------------------------
(* AdvancedPOSTagger.extract_phrases *)

\* the text of the tokens start+1 .. end of a document (offsets count from 0)
SpanText(d, start, end) == Join([k \in 1..(end - start) |-> d[start + k].text], " ")

\* the spans the collaborator may report as a noun chunk: one or two tokens
\* ending at a noun, which is the chunk's root
ChunkSpans(d) ==
  {[text |-> SpanText(d, s, r), root |-> r, start |-> s, end |-> r] :
     <<s, r>> \in {p \in (0..Len(d)) \X (1..Len(d)) :
                     /\ d[p[2]].pos = "NOUN"
                     /\ ~d[p[2]].is_punct
                     /\ p[1] < p[2]
                     /\ p[2] - p[1] <= 2}}

\* doc.noun_chunks: chunks in document order that do not overlap
ChunkLists(d) ==
  UNION {{c \in [1..n -> ChunkSpans(d)] :
            \A k \in 1..(n - 1) : c[k].end <= c[k + 1].start} : n \in 0..MaxChunks}

\* the loop with the end offset taken as the last token of the chunk
NounPhrasesInclusiveEnd(d, chunks) ==
  [k \in 1..Len(chunks) |->
     [text |-> chunks[k].text, type |-> "noun_phrase",
      root |-> d[chunks[k].root].text,
      start |-> chunks[k].start, end |-> chunks[k].end - 1]]

\* the loop over doc.noun_chunks
NounPhrases(d, chunks) ==
  [k \in 1..Len(chunks) |->
     [text |-> chunks[k].text, type |-> "noun_phrase",
      root |-> d[chunks[k].root].text,
      start |-> chunks[k].start, end |-> chunks[k].end]]

\* token.lefts: only the children before token i
ChildrenLeftOnly(d, i) ==
  SelectSeq([j \in 1..Len(d) |-> j], LAMBDA j : j < i /\ d[j].head = i)

\* token.children: the tokens whose head is token i, in document order
Children(d, i) ==
  SelectSeq([j \in 1..Len(d) |-> j], LAMBDA j : j # i /\ d[j].head = i)

\* the words of the verb phrase of token i: its auxiliaries, then the verb
RECURSIVE AuxWords(_, _)
AuxWords(d, children) ==
  IF children = <<>> THEN <<>>
  ELSE LET child == d[Head(children)] IN
    IF child.dep \in {"aux", "auxpass"}
      THEN <<child.text>> \o AuxWords(d, Tail(children))
      ELSE AuxWords(d, Tail(children))

\* the phrase with a span that reaches from its first to its last word
VerbPhraseAuxSpan(d, i) ==
  LET aux == SelectSeq(Children(d, i), LAMBDA j : d[j].dep \in {"aux", "auxpass"})
      first == IF aux # <<>> /\ aux[1] < i THEN aux[1] ELSE i
      last == IF aux # <<>> /\ aux[Len(aux)] > i THEN aux[Len(aux)] ELSE i
  IN [text |-> Join(Append(AuxWords(d, Children(d, i)), d[i].text), " "),
      type |-> "verb_phrase",
      root |-> d[i].text,
      start |-> first - 1,
      end |-> last]

\* the phrase of token i with its words
VerbPhrase(d, i) ==
  [text |-> Join(Append(AuxWords(d, Children(d, i)), d[i].text), " "),
   type |-> "verb_phrase",
   root |-> d[i].text,
   start |-> i - 1,
   end |-> (i - 1) + 1]

\* the loop with the auxiliaries taken for verbs too
RECURSIVE VerbPhrasesWithAux(_, _)
VerbPhrasesWithAux(d, i) ==
  IF i > Len(d) THEN <<>>
  ELSE IF d[i].pos \in {"VERB", "AUX"}
    THEN <<VerbPhrase(d, i)>> \o VerbPhrasesWithAux(d, i + 1)
    ELSE VerbPhrasesWithAux(d, i + 1)

\* the loop over the tokens from token i on
RECURSIVE VerbPhrases(_, _)
VerbPhrases(d, i) ==
  IF i > Len(d) THEN <<>>
  ELSE IF d[i].pos = "VERB"
    THEN <<VerbPhrase(d, i)>> \o VerbPhrases(d, i + 1)
    ELSE VerbPhrases(d, i + 1)

extract_phrases(d, chunks) == Returned(NounPhrases(d, chunks) \o VerbPhrases(d, 1))

-----------------------------------------------------------------------------
(* AdvancedPOSTagger.analyze_sentence_structure *)

\* [token for token in doc if token.dep_ == "ROOT"]
RootTokens(d) == SelectSeq(d, LAMBDA token : token.dep = "ROOT")

\* the loop with the whitespace tokens left out
DependenciesSkipSpace(d) ==
  LET kept == SelectSeq([i \in 1..Len(d) |-> i], LAMBDA i : ~d[i].is_space)
  IN [k \in 1..Len(kept) |->
        [word |-> d[kept[k]].text, dep |-> d[kept[k]].dep,
         head |-> d[d[kept[k]].head].text, pos |-> d[kept[k]].pos]]

\* the loop over the tokens of the document
Dependencies(d) ==
  [i \in 1..Len(d) |->
     [word |-> d[i].text, dep |-> d[i].dep, head |-> d[d[i].head].text, pos |-> d[i].pos]]

\* analyze_sentence_structure without the "if doc" guard of the root lookup
AnalyzeNoEmptyGuard(d) ==
  IF RootTokens(d) = <<>>
    THEN Raised("IndexError")
    ELSE Returned([root |-> Some(RootTokens(d)[1].text),
                   root_pos |-> Some(RootTokens(d)[1].pos),
                   dependencies |-> Dependencies(d),
                   sentence_length |-> Len(d)])

analyze_sentence_structure(d) ==
  IF Len(d) # 0 /\ RootTokens(d) = <<>>
    THEN Raised("IndexError")
    ELSE LET root == IF Len(d) # 0 THEN Some(RootTokens(d)[1]) ELSE None
         IN Returned([root |-> IF root # None THEN Some(root[1].text) ELSE None,
                      root_pos |-> IF root # None THEN Some(root[1].pos) ELSE None,
                      dependencies |-> Dependencies(d),
                      sentence_length |-> Len(d)])

-----------------------------------------------------------------------------
(* The models of the tagger: __init__ and _load_model. *)

\* self.supported_languages
supported_languages ==
  << <<"en", "en_core_web_sm">>, <<"es", "es_core_news_sm">>,
     <<"fr", "fr_core_news_sm">>, <<"de", "de_core_news_sm">>,
     <<"it", "it_core_news_sm">>, <<"pt", "pt_core_news_sm">>,
     <<"nl", "nl_core_news_sm">>, <<"ru", "ru_core_news_sm">>,
     <<"zh", "zh_core_web_sm">>, <<"ja", "ja_core_news_sm">> >>

\* the models a machine may have installed
Models == {"en_core_web_sm", "es_core_news_sm", "fr_core_news_sm"}

\* a language value that is a JSON array: a Python list, which cannot be hashed
ListLanguage == "[\"es\"]"

Hashable(language) == language # ListLanguage

\* the language values of the model: three supported codes, one code that
\* supported_languages does not hold, one value that is not a string
Languages == {"en", "es", "fr", "xx", ListLanguage}

\* the fields of an AdvancedPOSTagger; nlp is None or the loaded model
Tagger(language, nlp) == [language |-> language, nlp |-> nlp]

\* spacy.load that finds no model but the English one
SpacyLoadEnglishOnly(model_name, inst) ==
  IF model_name = "en_core_web_sm" /\ model_name \in inst
    THEN Returned(model_name)
    ELSE Raised("OSError")

\* spacy.load(model_name) on a machine with the models inst
spacy_load(model_name, inst) ==
  IF model_name \in inst THEN Returned(model_name) ELSE Raised("OSError")

\* _load_model that keeps the requested language when it falls back
LoadModelKeepLanguage(t, inst) ==
  IF ~Hashable(t.language) THEN [self |-> t, raised |-> Some("TypeError")]
  ELSE
    LET model_name == DictGet(supported_languages, t.language, "en_core_web_sm")
        first == spacy_load(model_name, inst)
        fallback == spacy_load("en_core_web_sm", inst)
    IN  IF first.kind = "returned"
          THEN [self |-> Tagger(t.language, Some(first.value)), raised |-> None]
        ELSE IF fallback.kind = "returned"
          THEN [self |-> Tagger(t.language, Some(fallback.value)), raised |-> None]
        ELSE [self |-> t, raised |-> Some(fallback.exception)]

\* _load_model on the tagger t: the tagger afterwards, and the exception that
\* left the method, if one did.  A list is refused by dict.get with a
\* TypeError, which the except clause for OSError does not catch; the
\* fallback spacy.load is outside any try.
_load_model(t, inst) ==
  IF ~Hashable(t.language) THEN [self |-> t, raised |-> Some("TypeError")]
  ELSE
    LET model_name == DictGet(supported_languages, t.language, "en_core_web_sm")
        first == spacy_load(model_name, inst)
        fallback == spacy_load("en_core_web_sm", inst)
    IN  IF first.kind = "returned"
          THEN [self |-> Tagger(t.language, Some(first.value)), raised |-> None]
        ELSE IF fallback.kind = "returned"
          THEN [self |-> Tagger("en", Some(fallback.value)), raised |-> None]
        ELSE [self |-> t, raised |-> Some(fallback.exception)]

\* AdvancedPOSTagger(language): the object, or the exception of _load_model
AdvancedPOSTagger(language, inst) ==
  LET loaded == _load_model(Tagger(language, None), inst) IN
    IF loaded.raised = None THEN Returned(loaded.self)
    ELSE Raised(loaded.raised[1])

\* the texts handed to a loaded model
Texts == {"", "is running"}

\* the analysis each model makes of a word: the English model knows the
\* words, the others take them for foreign words
ModelWord(model, word) ==
  IF model = "en_core_web_sm"
    THEN CHOOSE w \in ParseLexicon : w.text = word
  ELSE IF model = "es_core_news_sm"
    THEN [text |-> word, pos |-> "PROPN", is_punct |-> FALSE,
          is_space |-> FALSE, dep |-> "flat", prob |-> -200]
  ELSE [text |-> word, pos |-> "X", is_punct |-> FALSE,
        is_space |-> FALSE, dep |-> "dep", prob |-> -200]

\* self.nlp(text): the Doc of a loaded model, which carries a parser; the
\* English model hangs the auxiliary from the verb, the others hang the
\* second word from the first
nlp(model, text) ==
  IF text = "" THEN <<>>
  ELSE ParsedDoc(<<ModelWord(model, "is"), ModelWord(model, "running")>>,
                 IF model = "en_core_web_sm" THEN <<2, 2>> ELSE <<1, 1>>)

\* tagger.tag_text(text, include_confidence) of the tagger t
tagger_tag_text(t, text, include_confidence) ==
  IF t.nlp = None THEN Raised("ValueError")
  ELSE Returned(tag_text(nlp(t.nlp[1], text), include_confidence))

-----------------------------------------------------------------------------
(* The states in which a part of the program has not run. *)

\* no text has gone through the methods of the tagger
TextIdle ==
  /\ doc = <<>>
  /\ tags = NotCalled
  /\ statistics = NotCalled
  /\ noun_chunks = <<>>
  /\ phrases = NotCalled
  /\ structure = NotCalled

\* a machine with the English model, no tagger constructed, no request made
ServiceIdle ==
  /\ installed = {"en_core_web_sm"}
  /\ requested = None
  /\ tagger = NotCalled
  /\ req = <<>>

\* no chart has been drawn
ChartsIdle ==
  /\ bar_chart = NotCalled
  /\ dashboard = NotCalled
  /\ printed = NotCalled

\* no question has been put to the sample database
DbIdle ==
  /\ by_domain = NotCalled
  /\ by_language = NotCalled
  /\ by_id = NotCalled
  /\ sample_response = NotCalled

\* nothing has been searched, listed, saved or loaded
StoreIdle ==
  /\ searched = NotCalled
  /\ searched_again = NotCalled
  /\ listing = NotCalled
  /\ saved = NotCalled
  /\ reloaded = NotCalled

\* no tree has been drawn, nothing exported, the script has not run
FiguresIdle ==
  /\ dependency_tree = NotCalled
  /\ exported = NotCalled
  /\ enhanced = NotCalled

-----------------------------------------------------------------------------
(* The operations on one text. *)

Init ==
  /\ IsDoc(doc)
  /\ tags = NotCalled
  /\ statistics = NotCalled
  /\ noun_chunks = <<>>
  /\ phrases = NotCalled
  /\ structure = NotCalled
  /\ ServiceIdle
  /\ ChartsIdle
  /\ DbIdle
  /\ StoreIdle
  /\ FiguresIdle

\* tags = tagger.tag_text(text, include_confidence=True)
TagText ==
  /\ tags = NotCalled
  /\ tags' = Returned(tag_text(doc, TRUE))
  /\ UNCHANGED <<doc, statistics, noun_chunks, phrases, structure>>
  /\ UNCHANGED <<serviceVars, chartVars, dbVars, storeVars, figureVars>>

GetPosStatistics ==
  /\ tags.kind = "returned"
  /\ statistics = NotCalled
  /\ statistics' = get_pos_statistics(tags.value)
  /\ UNCHANGED <<doc, tags, noun_chunks, phrases, structure>>
  /\ UNCHANGED <<serviceVars, chartVars, dbVars, storeVars, figureVars>>

ExtractPhrases ==
  /\ phrases = NotCalled
  /\ \E chunks \in ChunkLists(doc) :
       /\ noun_chunks' = chunks
       /\ phrases' = extract_phrases(doc, chunks)
  /\ UNCHANGED <<doc, tags, statistics, structure>>
  /\ UNCHANGED <<serviceVars, chartVars, dbVars, storeVars, figureVars>>

AnalyzeSentenceStructure ==
  /\ structure = NotCalled
  /\ structure' = analyze_sentence_structure(doc)
  /\ UNCHANGED <<doc, tags, statistics, noun_chunks, phrases>>
  /\ UNCHANGED <<serviceVars, chartVars, dbVars, storeVars, figureVars>>

Next ==
  \/ TagText
  \/ GetPosStatistics
  \/ ExtractPhrases
  \/ AnalyzeSentenceStructure

Spec == Init /\ [][Next]_vars

-----------------------------------------------------------------------------
(* The construction of a tagger and its use on a text, on a machine with    *)
(* any set of models installed.                                             *)

InitTagger ==
  /\ installed \in SUBSET Models
  /\ requested = None
  /\ tagger = NotCalled
  /\ req = <<>>
  /\ TextIdle
  /\ ChartsIdle
  /\ DbIdle
  /\ StoreIdle
  /\ FiguresIdle

\* tagger = AdvancedPOSTagger(language)
Construct ==
  /\ tagger = NotCalled
  /\ \E language \in Languages :
       /\ requested' = Some(language)
       /\ tagger' = AdvancedPOSTagger(language, installed)
  /\ UNCHANGED <<installed, req, textVars, chartVars, dbVars, storeVars, figureVars>>

\* tags = tagger.tag_text(text, include_confidence)
TaggerTagText ==
  /\ tagger.kind = "returned"
  /\ tags = NotCalled
  /\ \E text \in Texts, include_confidence \in BOOLEAN :
       tags' = tagger_tag_text(tagger.value, text, include_confidence)
  /\ UNCHANGED <<doc, statistics, noun_chunks, phrases, structure>>
  /\ UNCHANGED <<serviceVars, chartVars, dbVars, storeVars, figureVars>>

NextTagger ==
  \/ Construct
  \/ TaggerTagText
  \/ GetPosStatistics

SpecTagger == InitTagger /\ [][NextTagger]_vars

-----------------------------------------------------------------------------
(* The sample database and the handler of /api/samples/<id>. *)

\* self.samples after _load_sample_texts; a title, a description and a text are
\* the sequences of their characters
StoredSamples ==
  << [id |-> "news_001", domain |-> "news", language |-> "en", difficulty |-> "medium",
      \* Technology Breakthrough
      title |->
        <<"T", "e", "c", "h", "n", "o", "l", "o", "g", "y", " ", "B", "r",
          "e", "a", "k", "t", "h", "r", "o", "u", "g", "h">>,
      \* Technology news article with technical terms
      description |->
        <<"T", "e", "c", "h", "n", "o", "l", "o", "g", "y", " ", "n", "e",
          "w", "s", " ", "a", "r", "t", "i", "c", "l", "e", " ", "w", "i",
          "t", "h", " ", "t", "e", "c", "h", "n", "i", "c", "a", "l", " ",
          "t", "e", "r", "m", "s">>,
      text |->
        <<"S", "c", "i", "e", "n", "t", "i", "s", "t", "s", " ", "h", "a",
          "v", "e", " ", "d", "e", "v", "e", "l", "o", "p", "e", "d", " ",
          "a", " ", "r", "e", "v", "o", "l", "u", "t", "i", "o", "n", "a",
          "r", "y", " ", "a", "r", "t", "i", "f", "i", "c", "i", "a", "l",
          " ", "i", "n", "t", "e", "l", "l", "i", "g", "e", "n", "c", "e",
          " ", "s", "y", "s", "t", "e", "m", " ", "t", "h", "a", "t", " ",
          "c", "a", "n", " ", "p", "r", "o", "c", "e", "s", "s", " ", "n",
          "a", "t", "u", "r", "a", "l", " ", "l", "a", "n", "g", "u", "a",
          "g", "e", " ", "w", "i", "t", "h", " ", "u", "n", "p", "r", "e",
          "c", "e", "d", "e", "n", "t", "e", "d", " ", "a", "c", "c", "u",
          "r", "a", "c", "y", ".", " ", "T", "h", "e", " ", "b", "r", "e",
          "a", "k", "t", "h", "r", "o", "u", "g", "h", " ", "p", "r", "o",
          "m", "i", "s", "e", "s", " ", "t", "o", " ", "t", "r", "a", "n",
          "s", "f", "o", "r", "m", " ", "h", "o", "w", " ", "c", "o", "m",
          "p", "u", "t", "e", "r", "s", " ", "u", "n", "d", "e", "r", "s",
          "t", "a", "n", "d", " ", "h", "u", "m", "a", "n", " ", "c", "o",
          "m", "m", "u", "n", "i", "c", "a", "t", "i", "o", "n", ".">>],
     [id |-> "news_002", domain |-> "news", language |-> "en", difficulty |-> "medium",
      \* Economic Update
      title |->
        <<"E", "c", "o", "n", "o", "m", "i", "c", " ", "U", "p", "d", "a",
          "t", "e">>,
      \* Financial news with economic terminology
      description |->
        <<"F", "i", "n", "a", "n", "c", "i", "a", "l", " ", "n", "e", "w",
          "s", " ", "w", "i", "t", "h", " ", "e", "c", "o", "n", "o", "m",
          "i", "c", " ", "t", "e", "r", "m", "i", "n", "o", "l", "o", "g", "y">>,
      text |->
        <<"T", "h", "e", " ", "F", "e", "d", "e", "r", "a", "l", " ", "R",
          "e", "s", "e", "r", "v", "e", " ", "a", "n", "n", "o", "u", "n",
          "c", "e", "d", " ", "t", "o", "d", "a", "y", " ", "t", "h", "a",
          "t", " ", "i", "n", "t", "e", "r", "e", "s", "t", " ", "r", "a",
          "t", "e", "s", " ", "w", "i", "l", "l", " ", "r", "e", "m", "a",
          "i", "n", " ", "u", "n", "c", "h", "a", "n", "g", "e", "d", " ",
          "f", "o", "r", " ", "t", "h", "e", " ", "f", "o", "r", "e", "s",
          "e", "e", "a", "b", "l", "e", " ", "f", "u", "t", "u", "r", "e",
          ".", " ", "E", "c", "o", "n", "o", "m", "i", "s", "t", "s", " ",
          "p", "r", "e", "d", "i", "c", "t", " ", "t", "h", "i", "s", " ",
          "d", "e", "c", "i", "s", "i", "o", "n", " ", "w", "i", "l", "l",
          " ", "s", "t", "a", "b", "i", "l", "i", "z", "e", " ", "m", "a",
          "r", "k", "e", "t", "s", " ", "a", "n", "d", " ", "e", "n", "c",
          "o", "u", "r", "a", "g", "e", " ", "c", "o", "n", "t", "i", "n",
          "u", "e", "d", " ", "e", "c", "o", "n", "o", "m", "i", "c", " ",
          "g", "r", "o", "w", "t", "h", ".">>],
     [id |-> "lit_001", domain |-> "literature", language |-> "en", difficulty |-> "easy",
      \* Classic Poetry
      title |->
        <<"C", "l", "a", "s", "s", "i", "c", " ", "P", "o", "e", "t", "r", "y">>,
      \* Famous pangram sentence
      description |->
        <<"F", "a", "m", "o", "u", "s", " ", "p", "a", "n", "g", "r", "a",
          "m", " ", "s", "e", "n", "t", "e", "n", "c", "e">>,
      text |->
        <<"T", "h", "e", " ", "q", "u", "i", "c", "k", " ", "b", "r", "o",
          "w", "n", " ", "f", "o", "x", " ", "j", "u", "m", "p", "s", " ",
          "o", "v", "e", "r", " ", "t", "h", "e", " ", "l", "a", "z", "y",
          " ", "d", "o", "g", " ", "n", "e", "a", "r", " ", "t", "h", "e",
          " ", "r", "i", "v", "e", "r", "b", "a", "n", "k", ".", " ", "T",
          "h", "i", "s", " ", "s", "e", "n", "t", "e", "n", "c", "e", " ",
          "c", "o", "n", "t", "a", "i", "n", "s", " ", "e", "v", "e", "r",
          "y", " ", "l", "e", "t", "t", "e", "r", " ", "o", "f", " ", "t",
          "h", "e", " ", "a", "l", "p", "h", "a", "b", "e", "t", " ", "a",
          "n", "d", " ", "d", "e", "m", "o", "n", "s", "t", "r", "a", "t",
          "e", "s", " ", "v", "a", "r", "i", "o", "u", "s", " ", "p", "a",
          "r", "t", "s", " ", "o", "f", " ", "s", "p", "e", "e", "c", "h",
          " ", "b", "e", "a", "u", "t", "i", "f", "u", "l", "l", "y", ".">>],
     [id |-> "lit_002", domain |-> "literature", language |-> "en", difficulty |-> "hard",
      \* Shakespeare Excerpt
      title |->
        <<"S", "h", "a", "k", "e", "s", "p", "e", "a", "r", "e", " ", "E",
          "x", "c", "e", "r", "p", "t">>,
      \* Shakespearean English with archaic forms
      description |->
        <<"S", "h", "a", "k", "e", "s", "p", "e", "a", "r", "e", "a", "n",
          " ", "E", "n", "g", "l", "i", "s", "h", " ", "w", "i", "t", "h",
          " ", "a", "r", "c", "h", "a", "i", "c", " ", "f", "o", "r", "m", "s">>,
      text |->
        <<"T", "o", " ", "b", "e", " ", "o", "r", " ", "n", "o", "t", " ",
          "t", "o", " ", "b", "e", ",", " ", "t", "h", "a", "t", " ", "i",
          "s", " ", "t", "h", "e", " ", "q", "u", "e", "s", "t", "i", "o",
          "n", ".", " ", "W", "h", "e", "t", "h", "e", "r", " ", "'", "t",
          "i", "s", " ", "n", "o", "b", "l", "e", "r", " ", "i", "n", " ",
          "t", "h", "e", " ", "m", "i", "n", "d", " ", "t", "o", " ", "s",
          "u", "f", "f", "e", "r", " ", "t", "h", "e", " ", "s", "l", "i",
          "n", "g", "s", " ", "a", "n", "d", " ", "a", "r", "r", "o", "w",
          "s", " ", "o", "f", " ", "o", "u", "t", "r", "a", "g", "e", "o",
          "u", "s", " ", "f", "o", "r", "t", "u", "n", "e", ".">>],
     [id |-> "tech_001", domain |-> "technical", language |-> "en", difficulty |-> "hard",
      \* Programming Documentation
      title |->
        <<"P", "r", "o", "g", "r", "a", "m", "m", "i", "n", "g", " ", "D",
          "o", "c", "u", "m", "e", "n", "t", "a", "t", "i", "o", "n">>,
      \* Programming documentation with technical jargon
      description |->
        <<"P", "r", "o", "g", "r", "a", "m", "m", "i", "n", "g", " ", "d",
          "o", "c", "u", "m", "e", "n", "t", "a", "t", "i", "o", "n", " ",
          "w", "i", "t", "h", " ", "t", "e", "c", "h", "n", "i", "c", "a",
          "l", " ", "j", "a", "r", "g", "o", "n">>,
      text |->
        <<"T", "h", "e", " ", "f", "u", "n", "c", "t", "i", "o", "n", " ",
          "i", "n", "i", "t", "i", "a", "l", "i", "z", "e", "_", "m", "o",
          "d", "e", "l", "(", ")", " ", "l", "o", "a", "d", "s", " ", "t",
          "h", "e", " ", "p", "r", "e", "-", "t", "r", "a", "i", "n", "e",
          "d", " ", "w", "e", "i", "g", "h", "t", "s", " ", "a", "n", "d",
          " ", "c", "o", "n", "f", "i", "g", "u", "r", "e", "s", " ", "t",
          "h", "e", " ", "n", "e", "u", "r", "a", "l", " ", "n", "e", "t",
          "w", "o", "r", "k", " ", "a", "r", "c", "h", "i", "t", "e", "c",
          "t", "u", "r", "e", ".", " ", "I", "t", " ", "r", "e", "t", "u",
          "r", "n", "s", " ", "a", " ", "m", "o", "d", "e", "l", " ", "o",
          "b", "j", "e", "c", "t", " ", "t", "h", "a", "t", " ", "c", "a",
          "n", " ", "b", "e", " ", "u", "s", "e", "d", " ", "f", "o", "r",
          " ", "i", "n", "f", "e", "r", "e", "n", "c", "e", " ", "o", "r",
          " ", "f", "i", "n", "e", "-", "t", "u", "n", "i", "n", "g", ".">>],
     [id |-> "tech_002", domain |-> "technical", language |-> "en", difficulty |-> "medium",
      \* API Reference
      title |->
        <<"A", "P", "I", " ", "R", "e", "f", "e", "r", "e", "n", "c", "e">>,
      \* API documentation format
      description |->
        <<"A", "P", "I", " ", "d", "o", "c", "u", "m", "e", "n", "t", "a",
          "t", "i", "o", "n", " ", "f", "o", "r", "m", "a", "t">>,
      text |->
        <<"P", "O", "S", "T", " ", "/", "a", "p", "i", "/", "v", "1", "/",
          "t", "a", "g", " ", "-", " ", "S", "u", "b", "m", "i", "t", " ",
          "t", "e", "x", "t", " ", "f", "o", "r", " ", "p", "a", "r", "t",
          "-", "o", "f", "-", "s", "p", "e", "e", "c", "h", " ", "t", "a",
          "g", "g", "i", "n", "g", ".", " ", "T", "h", "e", " ", "r", "e",
          "q", "u", "e", "s", "t", " ", "b", "o", "d", "y", " ", "s", "h",
          "o", "u", "l", "d", " ", "c", "o", "n", "t", "a", "i", "n", " ",
          "a", " ", "J", "S", "O", "N", " ", "o", "b", "j", "e", "c", "t",
          " ", "w", "i", "t", "h", " ", "'", "t", "e", "x", "t", "'", " ",
          "a", "n", "d", " ", "o", "p", "t", "i", "o", "n", "a", "l", " ",
          "'", "l", "a", "n", "g", "u", "a", "g", "e", "'", " ", "f", "i",
          "e", "l", "d", "s", ".">>],
     [id |-> "conv_001", domain |-> "conversational", language |-> "en", difficulty |-> "easy",
      \* Casual Conversation
      title |->
        <<"C", "a", "s", "u", "a", "l", " ", "C", "o", "n", "v", "e", "r",
          "s", "a", "t", "i", "o", "n">>,
      \* Informal conversational text
      description |->
        <<"I", "n", "f", "o", "r", "m", "a", "l", " ", "c", "o", "n", "v",
          "e", "r", "s", "a", "t", "i", "o", "n", "a", "l", " ", "t", "e",
          "x", "t">>,
      text |->
        <<"H", "e", "y", ",", " ", "h", "o", "w", " ", "a", "r", "e", " ",
          "y", "o", "u", " ", "d", "o", "i", "n", "g", " ", "t", "o", "d",
          "a", "y", "?", " ", "I", " ", "w", "a", "s", " ", "t", "h", "i",
          "n", "k", "i", "n", "g", " ", "w", "e", " ", "c", "o", "u", "l",
          "d", " ", "g", "r", "a", "b", " ", "s", "o", "m", "e", " ", "c",
          "o", "f", "f", "e", "e", " ", "l", "a", "t", "e", "r", " ", "i",
          "f", " ", "y", "o", "u", "'", "r", "e", " ", "f", "r", "e", "e",
          ".", " ", "W", "h", "a", "t", " ", "d", "o", " ", "y", "o", "u",
          " ", "t", "h", "i", "n", "k", "?">>],
     [id |-> "conv_002", domain |-> "conversational", language |-> "en", difficulty |-> "medium",
      \* Formal Email
      title |->
        <<"F", "o", "r", "m", "a", "l", " ", "E", "m", "a", "i", "l">>,
      \* Formal written communication
      description |->
        <<"F", "o", "r", "m", "a", "l", " ", "w", "r", "i", "t", "t", "e",
          "n", " ", "c", "o", "m", "m", "u", "n", "i", "c", "a", "t", "i",
          "o", "n">>,
      text |->
        <<"D", "e", "a", "r", " ", "P", "r", "o", "f", "e", "s", "s", "o",
          "r", " ", "S", "m", "i", "t", "h", ",", " ", "I", " ", "h", "o",
          "p", "e", " ", "t", "h", "i", "s", " ", "e", "m", "a", "i", "l",
          " ", "f", "i", "n", "d", "s", " ", "y", "o", "u", " ", "w", "e",
          "l", "l", ".", " ", "I", " ", "a", "m", " ", "w", "r", "i", "t",
          "i", "n", "g", " ", "t", "o", " ", "i", "n", "q", "u", "i", "r",
          "e", " ", "a", "b", "o", "u", "t", " ", "t", "h", "e", " ", "r",
          "e", "s", "e", "a", "r", "c", "h", " ", "o", "p", "p", "o", "r",
          "t", "u", "n", "i", "t", "i", "e", "s", " ", "a", "v", "a", "i",
          "l", "a", "b", "l", "e", " ", "i", "n", " ", "y", "o", "u", "r",
          " ", "l", "a", "b", "o", "r", "a", "t", "o", "r", "y", " ", "t",
          "h", "i", "s", " ", "s", "u", "m", "m", "e", "r", ".">>],
     [id |-> "sci_001", domain |-> "scientific", language |-> "en", difficulty |-> "hard",
      \* Research Abstract
      title |->
        <<"R", "e", "s", "e", "a", "r", "c", "h", " ", "A", "b", "s", "t",
          "r", "a", "c", "t">>,
      \* Academic research writing
      description |->
        <<"A", "c", "a", "d", "e", "m", "i", "c", " ", "r", "e", "s", "e",
          "a", "r", "c", "h", " ", "w", "r", "i", "t", "i", "n", "g">>,
      text |->
        <<"T", "h", "i", "s", " ", "s", "t", "u", "d", "y", " ", "i", "n",
          "v", "e", "s", "t", "i", "g", "a", "t", "e", "s", " ", "t", "h",
          "e", " ", "e", "f", "f", "e", "c", "t", "i", "v", "e", "n", "e",
          "s", "s", " ", "o", "f", " ", "m", "a", "c", "h", "i", "n", "e",
          " ", "l", "e", "a", "r", "n", "i", "n", "g", " ", "a", "l", "g",
          "o", "r", "i", "t", "h", "m", "s", " ", "i", "n", " ", "n", "a",
          "t", "u", "r", "a", "l", " ", "l", "a", "n", "g", "u", "a", "g",
          "e", " ", "p", "r", "o", "c", "e", "s", "s", "i", "n", "g", " ",
          "t", "a", "s", "k", "s", ".", " ", "O", "u", "r", " ", "r", "e",
          "s", "u", "l", "t", "s", " ", "d", "e", "m", "o", "n", "s", "t",
          "r", "a", "t", "e", " ", "s", "i", "g", "n", "i", "f", "i", "c",
          "a", "n", "t", " ", "i", "m", "p", "r", "o", "v", "e", "m", "e",
          "n", "t", "s", " ", "i", "n", " ", "a", "c", "c", "u", "r", "a",
          "c", "y", " ", "c", "o", "m", "p", "a", "r", "e", "d", " ", "t",
          "o", " ", "t", "r", "a", "d", "i", "t", "i", "o", "n", "a", "l",
          " ", "s", "t", "a", "t", "i", "s", "t", "i", "c", "a", "l", " ",
          "m", "e", "t", "h", "o", "d", "s", ".">>],
     [id |-> "sci_002", domain |-> "scientific", language |-> "en", difficulty |-> "hard",
      \* Medical Report
      title |->
        <<"M", "e", "d", "i", "c", "a", "l", " ", "R", "e", "p", "o", "r", "t">>,
      \* Medical terminology and clinical language
      description |->
        <<"M", "e", "d", "i", "c", "a", "l", " ", "t", "e", "r", "m", "i",
          "n", "o", "l", "o", "g", "y", " ", "a", "n", "d", " ", "c", "l",
          "i", "n", "i", "c", "a", "l", " ", "l", "a", "n", "g", "u", "a",
          "g", "e">>,
      text |->
        <<"T", "h", "e", " ", "p", "a", "t", "i", "e", "n", "t", " ", "p",
          "r", "e", "s", "e", "n", "t", "e", "d", " ", "w", "i", "t", "h",
          " ", "a", "c", "u", "t", "e", " ", "s", "y", "m", "p", "t", "o",
          "m", "s", " ", "i", "n", "c", "l", "u", "d", "i", "n", "g", " ",
          "f", "e", "v", "e", "r", ",", " ", "h", "e", "a", "d", "a", "c",
          "h", "e", ",", " ", "a", "n", "d", " ", "f", "a", "t", "i", "g",
          "u", "e", ".", " ", "L", "a", "b", "o", "r", "a", "t", "o", "r",
          "y", " ", "t", "e", "s", "t", "s", " ", "r", "e", "v", "e", "a",
          "l", "e", "d", " ", "e", "l", "e", "v", "a", "t", "e", "d", " ",
          "w", "h", "i", "t", "e", " ", "b", "l", "o", "o", "d", " ", "c",
          "e", "l", "l", " ", "c", "o", "u", "n", "t", ",", " ", "s", "u",
          "g", "g", "e", "s", "t", "i", "n", "g", " ", "p", "o", "s", "s",
          "i", "b", "l", "e", " ", "i", "n", "f", "e", "c", "t", "i", "o",
          "n", ".">>],
     [id |-> "multi_001", domain |-> "multilingual", language |-> "es", difficulty |-> "medium",
      \* Spanish Sample
      title |->
        <<"S", "p", "a", "n", "i", "s", "h", " ", "S", "a", "m", "p", "l", "e">>,
      \* Spanish text for multilingual testing
      description |->
        <<"S", "p", "a", "n", "i", "s", "h", " ", "t", "e", "x", "t", " ",
          "f", "o", "r", " ", "m", "u", "l", "t", "i", "l", "i", "n", "g",
          "u", "a", "l", " ", "t", "e", "s", "t", "i", "n", "g">>,
      text |->
        <<"E", "l", " ", "r", "á", "p", "i", "d", "o", " ", "z", "o", "r",
          "r", "o", " ", "m", "a", "r", "r", "ó", "n", " ", "s", "a", "l",
          "t", "a", " ", "s", "o", "b", "r", "e", " ", "e", "l", " ", "p",
          "e", "r", "r", "o", " ", "p", "e", "r", "e", "z", "o", "s", "o",
          " ", "c", "e", "r", "c", "a", " ", "d", "e", "l", " ", "r", "í",
          "o", ".", " ", "E", "s", "t", "a", " ", "o", "r", "a", "c", "i",
          "ó", "n", " ", "c", "o", "n", "t", "i", "e", "n", "e", " ", "m",
          "u", "c", "h", "a", "s", " ", "p", "a", "l", "a", "b", "r", "a",
          "s", " ", "d", "i", "f", "e", "r", "e", "n", "t", "e", "s", " ",
          "y", " ", "e", "s", " ", "ú", "t", "i", "l", " ", "p", "a", "r",
          "a", " ", "p", "r", "o", "b", "a", "r", " ", "e", "l", " ", "e",
          "t", "i", "q", "u", "e", "t", "a", "d", "o", " ", "m", "o", "r",
          "f", "o", "l", "ó", "g", "i", "c", "o", ".">>],
     [id |-> "multi_002", domain |-> "multilingual", language |-> "fr", difficulty |-> "medium",
      \* French Sample
      title |->
        <<"F", "r", "e", "n", "c", "h", " ", "S", "a", "m", "p", "l", "e">>,
      \* French text for multilingual testing
      description |->
        <<"F", "r", "e", "n", "c", "h", " ", "t", "e", "x", "t", " ", "f",
          "o", "r", " ", "m", "u", "l", "t", "i", "l", "i", "n", "g", "u",
          "a", "l", " ", "t", "e", "s", "t", "i", "n", "g">>,
      text |->
        <<"L", "e", " ", "r", "e", "n", "a", "r", "d", " ", "b", "r", "u",
          "n", " ", "r", "a", "p", "i", "d", "e", " ", "s", "a", "u", "t",
          "e", " ", "p", "a", "r", "-", "d", "e", "s", "s", "u", "s", " ",
          "l", "e", " ", "c", "h", "i", "e", "n", " ", "p", "a", "r", "e",
          "s", "s", "e", "u", "x", " ", "p", "r", "è", "s", " ", "d", "e",
          " ", "l", "a", " ", "r", "i", "v", "i", "è", "r", "e", ".", " ",
          "C", "e", "t", "t", "e", " ", "p", "h", "r", "a", "s", "e", " ",
          "c", "o", "n", "t", "i", "e", "n", "t", " ", "p", "l", "u", "s",
          "i", "e", "u", "r", "s", " ", "t", "y", "p", "e", "s", " ", "d",
          "e", " ", "m", "o", "t", "s", " ", "e", "t", " ", "e", "s", "t",
          " ", "p", "a", "r", "f", "a", "i", "t", "e", " ", "p", "o", "u",
          "r", " ", "l", "'", "a", "n", "a", "l", "y", "s", "e", " ", "g",
          "r", "a", "m", "m", "a", "t", "i", "c", "a", "l", "e", ".">>] >>

\* the dict that the methods build of a sample
SampleDict(sample) ==
  [id |-> sample.id, title |-> sample.title, text |-> sample.text,
   domain |-> sample.domain, language |-> sample.language,
   difficulty |-> sample.difficulty, description |-> sample.description]

\* [SampleDict(sample) for sample in samples]
SampleDicts(samples) == [k \in 1..Len(samples) |-> SampleDict(samples[k])]

\* the lookup that stops at the first sample of the domain
FirstSampleByDomain(samples, domain) ==
  LET found == SelectSeq(samples, LAMBDA sample : sample.domain = domain) IN
    IF found = <<>> THEN <<>> ELSE <<SampleDict(found[1])>>

get_samples_by_domain(samples, domain) ==
  SampleDicts(SelectSeq(samples, LAMBDA sample : sample.domain = domain))

get_samples_by_language(samples, language) ==
  SampleDicts(SelectSeq(samples, LAMBDA sample : sample.language = language))

\* the lookup that answers with the first sample when none has the id
SampleByIdOrFirst(samples, sample_id) ==
  LET found == SelectSeq(samples, LAMBDA sample : sample.id = sample_id) IN
    IF found = <<>> THEN Some(SampleDict(samples[1])) ELSE Some(SampleDict(found[1]))

\* the first sample with the id, None when the loop ends without one
get_sample_by_id(samples, sample_id) ==
  LET found == SelectSeq(samples, LAMBDA sample : sample.id = sample_id) IN
    IF found = <<>> THEN None ELSE Some(SampleDict(found[1]))

\* if sample: a dict is true when it has a key, None is false
Truthy(sample) == sample # None

\* the handler of GET /api/samples/<sample_id>
get_sample(samples, sample_id) ==
  LET sample == get_sample_by_id(samples, sample_id) IN
    IF Truthy(sample) THEN [status |-> 200, body |-> sample[1]]
    ELSE [status |-> 404, body |-> [error |-> "Sample not found"]]

\* the letters that have an upper and a lower case, paired by position
UpperCase ==
  <<"A", "B", "C", "D", "E", "F", "G", "H", "I", "J", "K", "L", "M", "N", "O",
    "P", "Q", "R", "S", "T", "U", "V", "W", "X", "Y", "Z", "Á", "È", "Í", "Ó",
    "Ú">>

LowerCase ==
  <<"a", "b", "c", "d", "e", "f", "g", "h", "i", "j", "k", "l", "m", "n", "o",
    "p", "q", "r", "s", "t", "u", "v", "w", "x", "y", "z", "á", "è", "í", "ó",
    "ú">>

\* c.lower(): a digit, a sign and the sharp s are their own lower case
lower_char(c) ==
  IF \E k \in 1..Len(UpperCase) : UpperCase[k] = c
    THEN LowerCase[CHOOSE k \in 1..Len(UpperCase) : UpperCase[k] = c]
    ELSE c

\* c.upper(), a string: the upper case of the sharp s is "SS"
upper_char(c) ==
  IF \E k \in 1..Len(LowerCase) : LowerCase[k] = c
    THEN <<UpperCase[CHOOSE k \in 1..Len(LowerCase) : LowerCase[k] = c]>>
  ELSE IF c = "ß" THEN <<"S", "S">>
  ELSE <<c>>

RECURSIVE upper(_)
\* s.upper()
upper(s) == IF s = <<>> THEN <<>> ELSE upper_char(Head(s)) \o upper(Tail(s))

\* s.lower()
lower(s) == [k \in 1..Len(s) |-> lower_char(s[k])]

\* needle in hay
Contains(needle, hay) ==
  \E i \in 0..(Len(hay) - Len(needle)) :
    \A k \in 1..Len(needle) : hay[i + k] = needle[k]

search_samples(samples, query) ==
  LET query_lower == lower(query) IN
    SampleDicts(SelectSeq(samples, LAMBDA sample :
      \/ Contains(query_lower, lower(sample.title))
      \/ Contains(query_lower, lower(sample.description))
      \/ Contains(query_lower, lower(sample.text))))

\* the queries of a search: words of the titles, the descriptions and the
\* texts in several casings, the sharp s, the empty query, a word that is
\* nowhere
Queries ==
  { <<"A", "I">>,
    <<"a", "i">>,
    <<"A", "i">>,
    <<"N", "E", "W", "S">>,
    <<"n", "e", "w", "s">>,
    <<"r", "i", "v", "e", "r", "b", "a", "n", "k">>,
    <<"p", "a", "n", "g", "r", "a", "m">>,
    <<"P", "o", "e", "t", "r", "y">>,
    <<"ß">>,
    <<"S", "S">>,
    <<"s", "s">>,
    <<>>,
    <<"x", "y", "z">> }

\* the arguments of the lookups: what is stored, and values that are not
DomainArgs == {StoredSamples[k].domain : k \in 1..Len(StoredSamples)} \cup {"sports"}

LanguageArgs == {StoredSamples[k].language : k \in 1..Len(StoredSamples)} \cup {"de"}

IdArgs == {StoredSamples[k].id : k \in 1..Len(StoredSamples)} \cup {"nonexistent"}

\* a call of a lookup: its argument and what it returned
Asked(arg, value) == Returned([arg |-> arg, value |-> value])

InitDb ==
  /\ DbIdle
  /\ StoreIdle
  /\ FiguresIdle
  /\ TextIdle
  /\ ServiceIdle
  /\ ChartsIdle

GetSamplesByDomain ==
  /\ by_domain = NotCalled
  /\ \E domain \in DomainArgs :
       by_domain' = Asked(domain, get_samples_by_domain(StoredSamples, domain))
  /\ UNCHANGED <<by_language, by_id, sample_response, textVars, serviceVars, chartVars, storeVars, figureVars>>

GetSamplesByLanguage ==
  /\ by_language = NotCalled
  /\ \E language \in LanguageArgs :
       by_language' = Asked(language, get_samples_by_language(StoredSamples, language))
  /\ UNCHANGED <<by_domain, by_id, sample_response, textVars, serviceVars, chartVars, storeVars, figureVars>>

GetSampleById ==
  /\ by_id = NotCalled
  /\ \E sample_id \in IdArgs :
       by_id' = Asked(sample_id, get_sample_by_id(StoredSamples, sample_id))
  /\ UNCHANGED <<by_domain, by_language, sample_response, textVars, serviceVars, chartVars, storeVars, figureVars>>

GetSample ==
  /\ sample_response = NotCalled
  /\ \E sample_id \in IdArgs :
       sample_response' = Asked(sample_id, get_sample(StoredSamples, sample_id))
  /\ UNCHANGED <<by_domain, by_language, by_id, textVars, serviceVars, chartVars, storeVars, figureVars>>

NextDb ==
  \/ GetSamplesByDomain
  \/ GetSamplesByLanguage
  \/ GetSampleById
  \/ GetSample

SpecDb == InitDb /\ [][NextDb]_vars

-----------------------------------------------------------------------------
(* The searches of the sample database. *)

\* what search_samples returns for each query of the model
SearchAnswers == [query \in Queries |-> search_samples(StoredSamples, query)]

InitSearch ==
  /\ StoreIdle
  /\ DbIdle
  /\ FiguresIdle
  /\ TextIdle
  /\ ServiceIdle
  /\ ChartsIdle

SearchSamples ==
  /\ searched = NotCalled
  /\ \E query \in Queries : searched' = Asked(query, SearchAnswers[query])
  /\ UNCHANGED <<searched_again, listing, saved, reloaded>>
  /\ UNCHANGED <<textVars, serviceVars, chartVars, dbVars, figureVars>>

\* another call of search_samples
SearchSamplesAgain ==
  /\ searched_again = NotCalled
  /\ \E query \in Queries : searched_again' = Asked(query, SearchAnswers[query])
  /\ UNCHANGED <<searched, listing, saved, reloaded>>
  /\ UNCHANGED <<textVars, serviceVars, chartVars, dbVars, figureVars>>

NextSearch ==
  \/ SearchSamples
  \/ SearchSamplesAgain

SpecSearch == InitSearch /\ [][NextSearch]_vars

-----------------------------------------------------------------------------
(* The file of the sample database and the listing of GET /api/samples. *)

\* json.dump(..., ensure_ascii=False) of one character of a str: the quote,
\* the backslash and the line feed are escaped, a letter with an accent is
\* written as it is
json_escape(c) ==
  IF c = "\"" THEN <<"\\", "\"">>
  ELSE IF c = "\\" THEN <<"\\", "\\">>
  ELSE IF c = "\n" THEN <<"\\", "n">>
  ELSE <<c>>

RECURSIVE escaped(_)
\* the characters of a str, each escaped, one half after the other
escaped(s) ==
  IF s = <<>> THEN <<>>
  ELSE IF Len(s) = 1 THEN json_escape(s[1])
  ELSE escaped(SubSeq(s, 1, Len(s) \div 2))
         \o escaped(SubSeq(s, Len(s) \div 2 + 1, Len(s)))

\* the JSON text of a str
json_dump_str(s) == <<"\"">> \o escaped(s) \o <<"\"">>

\* the number of backslashes that stand in a row right before position i
BackslashesBefore(j, i) ==
  CHOOSE r \in 0..(i - 1) :
    /\ \A k \in (i - r)..(i - 1) : j[k] = "\\"
    /\ (r < i - 1 => j[i - r - 1] # "\\")

\* the character at position i follows the backslash of its escape
Escaped(j, i) == BackslashesBefore(j, i) % 2 = 1

\* the characters between the quotes of a JSON string, escapes resolved: the
\* backslash that opens an escape is dropped, the character after it decoded
unescaped(j) ==
  LET kept == SelectSeq([i \in 1..Len(j) |-> i],
                        LAMBDA i : j[i] # "\\" \/ Escaped(j, i))
  IN [k \in 1..Len(kept) |->
       IF Escaped(j, kept[k]) /\ j[kept[k]] = "n" THEN "\n" ELSE j[kept[k]]]

\* the JSON text of a str kept with its escapes
JsonLoadEscaped(j) == SubSeq(j, 2, Len(j) - 1)

\* json.load of the JSON text of a str
json_load_str(j) == unescaped(SubSeq(j, 2, Len(j) - 1))

\* the JSON text of an id, a domain, a language or a difficulty: a word of
\* letters, digits and underscores between quotes
json_dump_code(code) == <<"\"", code, "\"">>

json_load_code(j) == j[2]

\* the JSON object of one dict of get_all_samples
json_dump_sample(sample) ==
  [id |-> json_dump_code(sample.id),
   title |-> json_dump_str(sample.title),
   text |-> json_dump_str(sample.text),
   domain |-> json_dump_code(sample.domain),
   language |-> json_dump_code(sample.language),
   difficulty |-> json_dump_code(sample.difficulty),
   description |-> json_dump_str(sample.description)]

\* list(set(...)) of the metadata: the order of the list is that of a set
SetOf(samples, field) == {samples[k][field] : k \in 1..Len(samples)}

\* the content of the file written by save_to_file
save_to_file(samples) ==
  LET all_samples == SampleDicts(samples) IN
    [samples |-> [k \in 1..Len(all_samples) |-> json_dump_sample(all_samples[k])],
     metadata |-> [total_samples |-> Len(samples),
                   domains |-> SetOf(samples, "domain"),
                   languages |-> SetOf(samples, "language"),
                   difficulties |-> SetOf(samples, "difficulty")]]

\* self.samples after load_from_file of a file of that content
load_from_file(data) ==
  [k \in 1..Len(data.samples) |->
    LET sample == data.samples[k] IN
      [id |-> json_load_code(sample.id),
       title |-> json_load_str(sample.title),
       text |-> json_load_str(sample.text),
       domain |-> json_load_code(sample.domain),
       language |-> json_load_code(sample.language),
       difficulty |-> json_load_code(sample.difficulty),
       description |-> json_load_str(sample.description)]]

\* a sample whose strings hold what JSON escapes
QuotedSample ==
  [id |-> "quoted_001",
   title |-> <<"S", "a", "y", " ", "\"", "h", "i", "\"">>,
   text |-> <<"C", ":", "\\", "n", "e", "w", "\n", "\\", "\\", "\"", "é">>,
   domain |-> "technical",
   language |-> "en",
   difficulty |-> "hard",
   description |-> <<"\\">>]

\* self.samples of the database that is saved
SampleLists ==
  { StoredSamples,
    <<>>,
    <<QuotedSample>>,
    <<StoredSamples[11], QuotedSample, StoredSamples[1]>> }

\* a str parameter of the query string is true when it is given and not empty
TruthyParam(param) == param # None /\ param[1] # ""

\* the search parameter of the query string likewise
TruthySearch(param) == param # None /\ param[1] # <<>>

\* the list comprehension of the difficulty filter
FilterDifficulty(samples, difficulty) ==
  SelectSeq(samples, LAMBDA s : s.difficulty = difficulty)

\* the handler that asks for a domain before a search
GetSamplesDomainFirst(samples, args) ==
  LET selected ==
        IF TruthyParam(args.domain) THEN get_samples_by_domain(samples, args.domain[1])
        ELSE IF TruthySearch(args.search) THEN search_samples(samples, args.search[1])
        ELSE IF TruthyParam(args.language)
          THEN get_samples_by_language(samples, args.language[1])
        ELSE SampleDicts(samples)
      filtered ==
        IF TruthyParam(args.difficulty)
          THEN FilterDifficulty(selected, args.difficulty[1])
          ELSE selected
  IN [status |-> 200, body |-> [samples |-> filtered, total |-> Len(filtered)]]

\* the handler of GET /api/samples
get_samples(samples, args) ==
  LET selected ==
        IF TruthySearch(args.search) THEN search_samples(samples, args.search[1])
        ELSE IF TruthyParam(args.domain)
          THEN get_samples_by_domain(samples, args.domain[1])
        ELSE IF TruthyParam(args.language)
          THEN get_samples_by_language(samples, args.language[1])
        ELSE SampleDicts(samples)
      filtered ==
        IF TruthyParam(args.difficulty)
          THEN FilterDifficulty(selected, args.difficulty[1])
          ELSE selected
  IN [status |-> 200, body |-> [samples |-> filtered, total |-> Len(filtered)]]

\* request.args of GET /api/samples: each parameter absent, empty or given
SampleArgs ==
  [search : {None, Some(<<>>), Some(<<"n", "e", "w", "s">>)},
   domain : {None, Some(""), Some("literature")},
   language : {None, Some("es")},
   difficulty : {None, Some(""), Some("medium")}]

InitStore ==
  /\ StoreIdle
  /\ DbIdle
  /\ FiguresIdle
  /\ TextIdle
  /\ ServiceIdle
  /\ ChartsIdle

GetSamples ==
  /\ listing = NotCalled
  /\ \E args \in SampleArgs : listing' = Asked(args, get_samples(StoredSamples, args))
  /\ UNCHANGED <<searched, searched_again, saved, reloaded>>
  /\ UNCHANGED <<textVars, serviceVars, chartVars, dbVars, figureVars>>

\* save_to_file of a database: saved is its samples and the file written
SaveToFile ==
  /\ saved = NotCalled
  /\ \E samples \in SampleLists : saved' = Asked(samples, save_to_file(samples))
  /\ UNCHANGED <<searched, searched_again, listing, reloaded>>
  /\ UNCHANGED <<textVars, serviceVars, chartVars, dbVars, figureVars>>

\* load_from_file of another database on the same file name: open raises
\* when the file was not written
LoadFromFile ==
  /\ reloaded = NotCalled
  /\ reloaded' = IF saved = NotCalled THEN Raised("FileNotFoundError")
                 ELSE Asked(saved.value.value, load_from_file(saved.value.value))
  /\ UNCHANGED <<searched, searched_again, listing, saved>>
  /\ UNCHANGED <<textVars, serviceVars, chartVars, dbVars, figureVars>>

NextStore ==
  \/ GetSamples
  \/ SaveToFile
  \/ LoadFromFile

SpecStore == InitStore /\ [][NextStore]_vars

-----------------------------------------------------------------------------
(* The frequency charts: create_pos_bar_chart and                           *)
(* create_comprehensive_dashboard of the visualizer, print_results of the   *)
(* script.                                                                  *)

\* s[::-1]
RECURSIVE Reverse(_)
Reverse(s) == IF s = <<>> THEN <<>> ELSE Append(Reverse(Tail(s)), Head(s))

\* the item goes behind the items of the sorted list that are not greater
RECURSIVE InsertAscending(_, _)
InsertAscending(item, s) ==
  IF s = <<>> THEN <<item>>
  ELSE IF s[1][2] <= item[2] THEN <<s[1]>> \o InsertAscending(item, Tail(s))
  ELSE <<item>> \o s

RECURSIVE SortAscending(_, _)
SortAscending(items, done) ==
  IF items = <<>> THEN done
  ELSE SortAscending(Tail(items), InsertAscending(Head(items), done))

\* sorted(items, key=lambda x: x[1])[::-1]: the ascending order turned round
SortedAscendingReversed(items) == Reverse(SortAscending(items, <<>>))

\* the item goes behind the items of the sorted list that are not smaller
RECURSIVE InsertDescending(_, _)
InsertDescending(item, s) ==
  IF s = <<>> THEN <<item>>
  ELSE IF s[1][2] >= item[2] THEN <<s[1]>> \o InsertDescending(item, Tail(s))
  ELSE <<item>> \o s

RECURSIVE SortDescending(_, _)
SortDescending(items, done) ==
  IF items = <<>> THEN done
  ELSE SortDescending(Tail(items), InsertDescending(Head(items), done))

\* sorted(items, key=lambda x: x[1], reverse=True): Python's sort is stable,
\* and reverse=True keeps the original order of equal items
SortedByValueReverse(items) == SortDescending(items, <<>>)

\* [pos for pos, count in items] and [count for pos, count in items]
Firsts(items) == [k \in 1..Len(items) |-> items[k][1]]

Seconds(items) == [k \in 1..Len(items) |-> items[k][2]]

\* pos_counts of the tags that are neither whitespace nor punctuation
ChartCounts(tgs) == CountTags(tgs, EmptyDict, 0)[1]

\* the bar of both charts: categories and counts by descending count
PosBar(tgs) ==
  LET sorted_pos == SortedByValueReverse(ChartCounts(tgs)) IN
    [x |-> Firsts(sorted_pos), y |-> Seconds(sorted_pos)]

create_pos_bar_chart(tgs) == Returned(PosBar(tgs))

RECURSIVE SumSeq(_)
SumSeq(s) == IF s = <<>> THEN 0 ELSE s[1] + SumSeq(Tail(s))

\* the condition under which a tag enters a per-category list: not
\* tag.is_space and not tag.is_punct, and for the confidences also
\* tag.confidence, which neither None nor 0.0 passes
Listed(tag, what) ==
  /\ ~tag.is_space /\ ~tag.is_punct
  /\ what = "confidence" => (tag.confidence # None /\ tag.confidence # Some(0))

\* tag.confidence, or len(tag.word)
ListedValue(tag, what) ==
  IF what = "confidence" THEN tag.confidence[1] ELSE Len(tag.word)

\* the values, in token order, of the listed tags of category pos
RECURSIVE ListOf(_, _, _)
ListOf(tgs, pos, what) ==
  IF tgs = <<>> THEN <<>>
  ELSE (IF tgs[1].pos = pos /\ Listed(tgs[1], what)
          THEN <<ListedValue(tgs[1], what)>> ELSE <<>>)
         \o ListOf(Tail(tgs), pos, what)

\* pos_confidences and pos_lengths: a dict of per-category lists, keyed in
\* the order the categories are first listed
RECURSIVE ListsByPos(_, _, _, _)
ListsByPos(all, tgs, d, what) ==
  IF tgs = <<>> THEN d
  ELSE ListsByPos(all, Tail(tgs),
                  IF Listed(tgs[1], what) /\ ~DictHas(d, tgs[1].pos)
                    THEN DictSet(d, tgs[1].pos, ListOf(all, tgs[1].pos, what))
                    ELSE d,
                  what)

\* avg_confidences: sum(confidences) / len(confidences) of each category
AvgConfidences(tgs) ==
  LET pos_confidences == ListsByPos(tgs, tgs, EmptyDict, "confidence") IN
    [k \in 1..Len(pos_confidences) |->
       <<pos_confidences[k][1],
         FloatDiv(SumSeq(pos_confidences[k][2]), Len(pos_confidences[k][2]))>>]

\* the four traces of the dashboard: pie, bar, heatmap, boxes
create_comprehensive_dashboard(tgs) ==
  LET pos_counts == ChartCounts(tgs)
      avg_confidences == AvgConfidences(tgs)
  IN  Returned([pie |-> [labels |-> Firsts(pos_counts), values |-> Seconds(pos_counts)],
                bar |-> PosBar(tgs),
                heatmap |-> [x |-> Firsts(avg_confidences), z |-> Seconds(avg_confidences)],
                boxes |-> ListsByPos(tgs, tgs, EmptyDict, "length")])

\* the statistics of enhanced_pos_tagging: the counts of the tokens that are
\* neither whitespace nor punctuation, and their percentages
enhanced_statistics(d) ==
  LET pos_counts == CountTags(tag_text(d, FALSE), EmptyDict, 0)[1] IN
    [total_words |-> SumValues(pos_counts),
     pos_counts |-> pos_counts,
     pos_percentages |-> PosPercentages(pos_counts, SumValues(pos_counts)),
     unique_pos_tags |-> Len(pos_counts)]

\* the lines of POS DISTRIBUTION: category, percentage, count, by descending
\* percentage
print_results(stats) ==
  LET sorted_pos == SortedByValueReverse(stats.pos_percentages) IN
    Returned([k \in 1..Len(sorted_pos) |->
                [pos |-> sorted_pos[k][1], percentage |-> sorted_pos[k][2],
                 count |-> DictGet(stats.pos_counts, sorted_pos[k][1], 0)]])

\* the documents that are charted differ in their words
InitCharts ==
  /\ \E n \in 0..MaxWords : \E w \in WordSeqs(WordLexicon, n) :
       doc = ParsedDoc(w, FlatHeads(n))
  /\ tags = NotCalled
  /\ statistics = NotCalled
  /\ noun_chunks = <<>>
  /\ phrases = NotCalled
  /\ structure = NotCalled
  /\ ServiceIdle
  /\ ChartsIdle
  /\ DbIdle
  /\ StoreIdle
  /\ FiguresIdle

CreatePosBarChart ==
  /\ tags.kind = "returned"
  /\ bar_chart = NotCalled
  /\ bar_chart' = create_pos_bar_chart(tags.value)
  /\ UNCHANGED <<dashboard, printed, textVars, serviceVars, dbVars, storeVars, figureVars>>

CreateComprehensiveDashboard ==
  /\ tags.kind = "returned"
  /\ dashboard = NotCalled
  /\ dashboard' = create_comprehensive_dashboard(tags.value)
  /\ UNCHANGED <<bar_chart, printed, textVars, serviceVars, dbVars, storeVars, figureVars>>

\* print_results(enhanced_pos_tagging(text))
PrintResults ==
  /\ printed = NotCalled
  /\ printed' = print_results(enhanced_statistics(doc))
  /\ UNCHANGED <<bar_chart, dashboard, textVars, serviceVars, dbVars, storeVars, figureVars>>

NextCharts ==
  \/ TagText
  \/ CreatePosBarChart
  \/ CreateComprehensiveDashboard
  \/ PrintResults

SpecCharts == InitCharts /\ [][NextCharts]_vars

-----------------------------------------------------------------------------
(* The dependency tree, the exported data and the statistics of the script. *)

\* the positions of a list as Python counts them, from 0
Enumerate(tgs) == [k \in 1..Len(tgs) |-> k - 1]

Max(a, b) == IF a > b THEN a ELSE b

\* nodes: a dict with the keys id, label and pos for every tag that is not
\* whitespace
TreeNodes(tgs) ==
  LET kept == SelectSeq(Enumerate(tgs), LAMBDA i : ~tgs[i + 1].is_space) IN
    [k \in 1..Len(kept) |->
       [id |-> kept[k],
        label |-> <<tgs[kept[k] + 1].word, tgs[kept[k] + 1].pos>>,
        pos |-> tgs[kept[k] + 1].pos]]

\* edges: (max(0, i - 1), i) for every tag that is not whitespace and whose
\* dep is not ROOT
TreeEdges(tgs) ==
  LET kept == SelectSeq(Enumerate(tgs),
                        LAMBDA i : ~tgs[i + 1].is_space /\ tgs[i + 1].dep # "ROOT")
  IN [k \in 1..Len(kept) |-> <<Max(0, kept[k] - 1), kept[k]>>]

\* nodes[index][key]
NodeItem(nodes, index, key) ==
  IF index >= Len(nodes) THEN Raised("IndexError")
  ELSE IF key \notin DOMAIN nodes[index + 1] THEN Raised("KeyError")
  ELSE Returned(nodes[index + 1][key])

\* the figure that holds a line for every edge and a marker for every node
DependencyTreeDrawn(tgs) ==
  Returned([lines |-> TreeEdges(tgs),
            markers |-> [k \in 1..Len(TreeNodes(tgs)) |-> TreeNodes(tgs)[k].label],
            title |-> "Dependency Tree"])

\* the first trace to be added reads the x of a node: of the head of the first
\* edge, or of the first node when there is no edge
create_dependency_tree(tgs) ==
  LET nodes == TreeNodes(tgs)
      edges == TreeEdges(tgs)
      first == IF edges # <<>> THEN NodeItem(nodes, edges[1][1], "x")
               ELSE IF nodes # <<>> THEN NodeItem(nodes, 0, "x")
               ELSE Returned(0)
  IN IF first.kind = "raised" THEN first
     ELSE IF edges = <<>> /\ nodes = <<>>
       THEN Returned([lines |-> <<>>, markers |-> <<>>, title |-> "Dependency Tree"])
     ELSE DependencyTreeDrawn(tgs)

\* the loop that counts every tag as a word
RECURSIVE ExportLoopAllTags(_, _)
ExportLoopAllTags(tgs, acc) ==
  IF tgs = <<>> THEN acc
  ELSE LET tag == Head(tgs) IN
    ExportLoopAllTags(Tail(tgs),
      [pos_counts |-> DictSet(acc.pos_counts, tag.pos,
                              DictGet(acc.pos_counts, tag.pos, 0) + 1),
       total_words |-> acc.total_words + 1,
       total_confidence |-> acc.total_confidence,
       confidence_count |-> acc.confidence_count])

\* the loop of export_visualization_data over the tags: the counts and the
\* three counters
RECURSIVE ExportLoop(_, _)
ExportLoop(tgs, acc) ==
  IF tgs = <<>> THEN acc
  ELSE LET tag == Head(tgs) IN
    IF ~tag.is_space /\ ~tag.is_punct
      THEN LET confident == tag.confidence # None /\ tag.confidence # Some(0) IN
        ExportLoop(Tail(tgs),
          [pos_counts |-> DictSet(acc.pos_counts, tag.pos,
                                  DictGet(acc.pos_counts, tag.pos, 0) + 1),
           total_words |-> acc.total_words + 1,
           total_confidence |->
             acc.total_confidence + (IF confident THEN tag.confidence[1] ELSE 0),
           confidence_count |-> acc.confidence_count + (IF confident THEN 1 ELSE 0)])
      ELSE ExportLoop(Tail(tgs), acc)

\* data, the dict that export_visualization_data dumps into the file
export_visualization_data(tgs) ==
  LET acc == ExportLoop(tgs, [pos_counts |-> EmptyDict, total_words |-> 0,
                              total_confidence |-> 0, confidence_count |-> 0])
  IN Returned(
       [pos_counts |-> acc.pos_counts,
        pos_confidences |-> ListsByPos(tgs, tgs, EmptyDict, "confidence"),
        word_lengths |-> ListsByPos(tgs, tgs, EmptyDict, "length"),
        statistics |->
          [total_words |-> acc.total_words,
           unique_pos_tags |-> Len(acc.pos_counts),
           average_confidence |->
             IF acc.confidence_count > 0
               THEN FloatDiv(acc.total_confidence, acc.confidence_count)
               ELSE 0]])

\* the documents differ in their words, as those of the charts
InitFigures == InitCharts

CreateDependencyTree ==
  /\ tags.kind = "returned"
  /\ dependency_tree = NotCalled
  /\ dependency_tree' = create_dependency_tree(tags.value)
  /\ UNCHANGED <<exported, enhanced>>
  /\ UNCHANGED <<textVars, serviceVars, chartVars, dbVars, storeVars>>

ExportVisualizationData ==
  /\ tags.kind = "returned"
  /\ exported = NotCalled
  /\ exported' = export_visualization_data(tags.value)
  /\ UNCHANGED <<dependency_tree, enhanced>>
  /\ UNCHANGED <<textVars, serviceVars, chartVars, dbVars, storeVars>>

\* enhanced_pos_tagging(text)["statistics"]
EnhancedPosTagging ==
  /\ enhanced = NotCalled
  /\ enhanced' = Returned(enhanced_statistics(doc))
  /\ UNCHANGED <<dependency_tree, exported>>
  /\ UNCHANGED <<textVars, serviceVars, chartVars, dbVars, storeVars>>

NextFigures ==
  \/ TagText
  \/ GetPosStatistics
  \/ CreateDependencyTree
  \/ ExportVisualizationData
  \/ EnhancedPosTagging

SpecFigures == InitFigures /\ [][NextFigures]_vars

-----------------------------------------------------------------------------
(* The web service: the handlers of /api/tag and /api/batch_tag, run by the *)
(* threads of the server against the one tagger of the module.              *)

\* the requests in flight
Requests == {"r1", "r2"}

\* the machine of the service: the English and the Spanish model
ServiceModels == {"en_core_web_sm", "es_core_news_sm"}

\* the language values of a request body
RequestLanguages == {"en", "es", "fr", ListLanguage}

\* the text of a request body that has one
RequestText == "is running"

\* request.get_json() of /api/tag: a body without text, or one with text,
\* language and the three flags (absent ones already replaced by their
\* defaults)
Bodies ==
  [text : {None}, language : {"en", "es"}, include_stats : {FALSE},
   include_phrases : {FALSE}, include_structure : {FALSE}]
  \cup
  [text : {Some(RequestText)}, language : RequestLanguages,
   include_stats : BOOLEAN, include_phrases : BOOLEAN,
   include_structure : BOOLEAN]

\* the items of a texts array: a string, a number, a dict with a text, a dict
\* without one
BatchItems ==
  << [type |-> "str", value |-> "is running"],
     [type |-> "int", value |-> 42],
     [type |-> "dict", value |-> [text |-> ""]],
     [type |-> "dict", value |-> [title |-> "is running"]] >>

\* request.get_json() of /api/batch_tag: a body without texts, or one with
\* texts, language and include_stats
BatchBodies ==
  [texts : {None}, language : {"en", "es"}, include_stats : {FALSE}]
  \cup
  [texts : {Some(BatchItems)}, language : RequestLanguages,
   include_stats : BOOLEAN]

\* a request the server has not received; loading is the model that
\* _load_model is loading, at the number of items of a batch gone through
IdleRequest == [pc |-> "idle", route |-> "", data |-> None, response |-> <<>>,
                loading |-> NotCalled, at |-> 0,
                failed |-> None, result |-> NotCalled]

\* the except clause that answers with what the handler had built so far
PartialResponse(response, e) == [status |-> 200, body |-> response]

\* except Exception as e: return jsonify({'error': str(e)}), 500
ErrorResponse(response, e) == [status |-> 500, body |-> [error |-> e]]

\* return jsonify(response)
OkResponse(response) == [status |-> 200, body |-> response]

\* the handler of a request leaves through its except clause; failed names
\* the step at which the collaborator failed, None when the code itself raised
Fail(q, e, step) ==
  [q EXCEPT !.pc = "done", !.failed = step,
            !.result = ErrorResponse(q.response, e)]

\* the step of the handler that follows the step after
StepAfter(data, after) ==
  IF after = "tag" /\ data.include_phrases THEN "phrases"
  ELSE IF after \in {"tag", "phrases"} /\ data.include_structure THEN "structure"
  ELSE "done"

\* the handler goes on to its next step with the response built so far, and
\* returns it when no step is left
Proceed(q, response, after) ==
  LET next == StepAfter(q.data[1], after) IN
    [q EXCEPT !.pc = next, !.response = response,
              !.result = IF next = "done" THEN OkResponse(response) ELSE @]

\* the test that lets the strings through only
TaggableStr(item) == item.type = "str"

\* isinstance(text_data, str), or isinstance(text_data, dict) and 'text' in
\* text_data
Taggable(item) ==
  \/ item.type = "str"
  \/ item.type = "dict" /\ "text" \in DOMAIN item.value

\* text = text_data, or text = text_data['text']
ItemText(item) == IF item.type = "str" THEN item.value ELSE item.value.text

\* the position of the next item of the loop that is not skipped, 0 when the
\* loop has come to its end
NextTaggable(texts, at) ==
  IF \E i \in (at + 1)..Len(texts) : Taggable(texts[i])
    THEN CHOOSE i \in (at + 1)..Len(texts) :
           /\ Taggable(texts[i])
           /\ \A k \in (at + 1)..(i - 1) : ~Taggable(texts[k])
    ELSE 0

\* return jsonify({'results': results, 'total': len(results)})
BatchResponse(results) == OkResponse([results |-> results, total |-> Len(results)])

\* the loop of batch_tag with results so far at item at: it goes on to the
\* next item that is not skipped, or the handler returns
BatchProceed(q, results, at) ==
  IF NextTaggable(q.data[1].texts[1], at) = 0
    THEN [q EXCEPT !.pc = "done", !.response = results, !.at = Len(q.data[1].texts[1]),
                   !.result = BatchResponse(results)]
    ELSE [q EXCEPT !.pc = "item", !.response = results, !.at = at]

\* the handler after the language of the tagger has been dealt with
AfterLanguage(q) ==
  IF q.route = "/api/tag" THEN [q EXCEPT !.pc = "tag"]
  ELSE BatchProceed(q, <<>>, 0)

InitService ==
  /\ installed = ServiceModels
  /\ requested = Some("en")
  /\ tagger = AdvancedPOSTagger("en", installed)
  /\ req = [r \in Requests |-> IdleRequest]
  /\ TextIdle
  /\ ChartsIdle
  /\ DbIdle
  /\ StoreIdle
  /\ FiguresIdle

\* the handler that sets the language of the tagger before it looks for the
\* text
ReceiveSwitchingFirst(r) ==
  /\ req[r].pc = "idle"
  /\ \E data \in Bodies :
       /\ req' = [req EXCEPT ![r] =
                 IF data.text = None
                   THEN [@ EXCEPT !.pc = "done", !.route = "/api/tag", !.data = Some(data),
                                  !.result = [status |-> 400,
                                              body |-> [error |-> "Text is required"]]]
                   ELSE [@ EXCEPT !.pc = "language", !.route = "/api/tag",
                                  !.data = Some(data)]]
       /\ tagger' = Returned(Tagger(data.language, tagger.value.nlp))
  /\ UNCHANGED <<installed, requested, textVars, chartVars, dbVars, storeVars, figureVars>>

\* /api/tag: data = request.get_json(); the 400 answer of a body without text
Receive(r) ==
  /\ req[r].pc = "idle"
  /\ \E data \in Bodies :
       req' = [req EXCEPT ![r] =
                 IF data.text = None
                   THEN [@ EXCEPT !.pc = "done", !.route = "/api/tag", !.data = Some(data),
                                  !.result = [status |-> 400,
                                              body |-> [error |-> "Text is required"]]]
                   ELSE [@ EXCEPT !.pc = "language", !.route = "/api/tag",
                                  !.data = Some(data)]]
  /\ UNCHANGED <<installed, requested, tagger, textVars, chartVars, dbVars, storeVars, figureVars>>

\* /api/batch_tag: data = request.get_json(); the 400 answer of a body
\* without texts
ReceiveBatch(r) ==
  /\ req[r].pc = "idle"
  /\ \E data \in BatchBodies :
       req' = [req EXCEPT ![r] =
                 IF data.texts = None
                   THEN [@ EXCEPT !.pc = "done", !.route = "/api/batch_tag",
                                  !.data = Some(data),
                                  !.result = [status |-> 400,
                                              body |-> [error |-> "Texts array is required"]]]
                   ELSE [@ EXCEPT !.pc = "language", !.route = "/api/batch_tag",
                                  !.data = Some(data)]]
  /\ UNCHANGED <<installed, requested, tagger, textVars, chartVars, dbVars, storeVars, figureVars>>

\* if language != tagger.language: tagger.language = language
SwitchLanguage(r) ==
  /\ req[r].pc = "language"
  /\ LET language == req[r].data[1].language IN
       IF language # tagger.value.language
         THEN /\ tagger' = Returned(Tagger(language, tagger.value.nlp))
              /\ req' = [req EXCEPT ![r].pc = "load"]
         ELSE /\ tagger' = tagger
              /\ req' = [req EXCEPT ![r] = AfterLanguage(@)]
  /\ UNCHANGED <<installed, requested, textVars, chartVars, dbVars, storeVars, figureVars>>

\* tagger._load_model(), up to the return of spacy.load(model_name): the
\* language is read and the model loaded; a list is refused by dict.get
LoadModel(r) ==
  /\ req[r].pc = "load"
  /\ req' = [req EXCEPT ![r] =
       IF ~Hashable(tagger.value.language) THEN Fail(@, "TypeError", None)
       ELSE [@ EXCEPT !.pc = "assign",
               !.loading = spacy_load(DictGet(supported_languages, tagger.value.language,
                                              "en_core_web_sm"),
                                      installed)]]
  /\ UNCHANGED <<installed, requested, tagger, textVars, chartVars, dbVars, storeVars, figureVars>>

\* tagger._load_model(), from the assignment of self.nlp: the model that was
\* loaded, or the English model and the language "en" of the except clause
AssignModel(r) ==
  /\ req[r].pc = "assign"
  /\ LET first == req[r].loading
         fallback == spacy_load("en_core_web_sm", installed)
     IN  IF first.kind = "returned"
           THEN /\ tagger' = Returned(Tagger(tagger.value.language, Some(first.value)))
                /\ req' = [req EXCEPT ![r] = AfterLanguage(@)]
         ELSE IF fallback.kind = "returned"
           THEN /\ tagger' = Returned(Tagger("en", Some(fallback.value)))
                /\ req' = [req EXCEPT ![r] = AfterLanguage(@)]
         ELSE /\ tagger' = tagger
              /\ req' = [req EXCEPT ![r] = Fail(@, fallback.exception, None)]
  /\ UNCHANGED <<installed, requested, textVars, chartVars, dbVars, storeVars, figureVars>>

\* tags = tagger.tag_text(text, include_confidence=True), the response with
\* the tags, and the statistics of the tags when asked for
TagStep(r) ==
  /\ req[r].pc = "tag"
  /\ LET data == req[r].data[1]
         called == tagger_tag_text(tagger.value, data.text[1], TRUE)
         response == [text |-> data.text[1], language |-> data.language,
                      tags |-> called.value]
         stats == get_pos_statistics(called.value)
     IN  \/ req' = [req EXCEPT ![r] = Fail(@, "CollaboratorError", Some("tag"))]
         \/ /\ called.kind = "raised"
            /\ req' = [req EXCEPT ![r] = Fail(@, called.exception, None)]
         \/ /\ called.kind = "returned"
            /\ req' = [req EXCEPT ![r] =
                 IF ~data.include_stats THEN Proceed(@, response, "tag")
                 ELSE IF stats.kind = "raised" THEN Fail(@, stats.exception, None)
                 ELSE Proceed(@, response @@ ("statistics" :> stats.value), "tag")]
  /\ UNCHANGED <<installed, requested, tagger, textVars, chartVars, dbVars, storeVars, figureVars>>

\* response['phrases'] = tagger.extract_phrases(text)
PhrasesStep(r) ==
  /\ req[r].pc = "phrases"
  /\ LET d == nlp(tagger.value.nlp[1], req[r].data[1].text[1]) IN
       \/ req' = [req EXCEPT ![r] = Fail(@, "CollaboratorError", Some("phrases"))]
       \/ \E chunks \in ChunkLists(d) :
            LET called == extract_phrases(d, chunks) IN
              req' = [req EXCEPT ![r] =
                        Proceed(@, @.response @@ ("phrases" :> called.value),
                                "phrases")]
  /\ UNCHANGED <<installed, requested, tagger, textVars, chartVars, dbVars, storeVars, figureVars>>

\* response['structure'] = tagger.analyze_sentence_structure(text)
StructureStep(r) ==
  /\ req[r].pc = "structure"
  /\ LET called == analyze_sentence_structure(
                     nlp(tagger.value.nlp[1], req[r].data[1].text[1]))
     IN  \/ req' = [req EXCEPT ![r] = Fail(@, "CollaboratorError", Some("structure"))]
         \/ /\ called.kind = "raised"
            /\ req' = [req EXCEPT ![r] = Fail(@, called.exception, None)]
         \/ /\ called.kind = "returned"
            /\ req' = [req EXCEPT ![r] =
                         Proceed(@, @.response @@ ("structure" :> called.value),
                                 "structure")]
  /\ UNCHANGED <<installed, requested, tagger, textVars, chartVars, dbVars, storeVars, figureVars>>

\* one turn of the loop of batch_tag: the items that are skipped, then the
\* tags of the next item, its result with the statistics when asked for,
\* results.append(result); the return when no item is left
ItemStep(r) ==
  /\ req[r].pc = "item"
  /\ LET data == req[r].data[1]
         i == NextTaggable(data.texts[1], req[r].at)
         text == ItemText(data.texts[1][i])
         called == tagger_tag_text(tagger.value, text, TRUE)
         result == [text |-> text, tags |-> called.value]
         stats == get_pos_statistics(called.value)
     IN  \/ req' = [req EXCEPT ![r] = Fail(@, "CollaboratorError", Some("tag"))]
         \/ /\ called.kind = "raised"
            /\ req' = [req EXCEPT ![r] = Fail(@, called.exception, None)]
         \/ /\ called.kind = "returned"
            /\ req' = [req EXCEPT ![r] =
                 IF ~data.include_stats
                   THEN BatchProceed(@, Append(@.response, result), i)
                 ELSE IF stats.kind = "raised" THEN Fail(@, stats.exception, None)
                 ELSE BatchProceed(@, Append(@.response,
                                             result @@ ("statistics" :> stats.value)), i)]
  /\ UNCHANGED <<installed, requested, tagger, textVars, chartVars, dbVars, storeVars, figureVars>>

NextService ==
  \E r \in Requests :
    \/ Receive(r)
    \/ ReceiveBatch(r)
    \/ SwitchLanguage(r)
    \/ LoadModel(r)
    \/ AssignModel(r)
    \/ TagStep(r)
    \/ PhrasesStep(r)
    \/ StructureStep(r)
    \/ ItemStep(r)

SpecService == InitService /\ [][NextService]_vars

\* the server receives a request when it has answered every earlier one
ReceiveNext(r) ==
  /\ \A other \in Requests : req[other].pc \in {"idle", "done"}
  /\ Receive(r)

\* the requests handled one after the other
NextServiceSeq ==
  \E r \in Requests :
    \/ ReceiveNext(r)
    \/ SwitchLanguage(r)
    \/ LoadModel(r)
    \/ AssignModel(r)
    \/ TagStep(r)
    \/ PhrasesStep(r)
    \/ StructureStep(r)

SpecServiceSeq == InitService /\ [][NextServiceSeq]_vars

-----------------------------------------------------------------------------
(* Properties of get_pos_statistics. *)

\* the positions of the tags that are neither whitespace nor punctuation
Eligible(tgs) == {i \in 1..Len(tgs) : ~tgs[i].is_space /\ ~tgs[i].is_punct}

\* the number of eligible tags of category p
EligibleOf(tgs, p) == Cardinality({i \in Eligible(tgs) : tgs[i].pos = p})

Abs(x) == IF x < 0 THEN -x ELSE x

StatisticsCalled == statistics.kind # "not_called"

\* C1: whenever the tags hold an eligible token, the percentages returned by
\* get_pos_statistics sum to 100 within 0.1, and each percentage is
\* 100 * count / total_words of its category (to the rounding of a float).
C1_PercentagesSumTo100 ==
  (StatisticsCalled /\ Eligible(tags.value) # {}) =>
    /\ statistics.kind = "returned"
    /\ LET s == statistics.value IN
         /\ Abs(SumValues(s.pos_percentages) - 100 * PctScale) <= PctScale \div 10
         /\ DictKeys(s.pos_percentages) = DictKeys(s.pos_counts)
         /\ \A p \in DictKeys(s.pos_counts) :
              Abs(DictGet(s.pos_percentages, p, 0) * s.total_words
                    - 100 * PctScale * DictGet(s.pos_counts, p, 0))
                <= 50 * s.total_words

\* three eligible tokens of two categories among other tokens: 2/3 and 1/3
C1_Witness ==
  /\ statistics.kind = "returned"
  /\ statistics.value.total_words = 3
  /\ Len(statistics.value.pos_counts) = 2
  /\ Len(tags.value) > 3

\* C2: pos_counts holds, for exactly the categories of the eligible tokens,
\* the number of eligible tokens of the category; total_words is the sum of
\* the counts and unique_pos_tags the number of keys; DET, ADJ, NOUN, VERB
\* give total 4, counts 1, percentages 25 and unique 4.
C2_CountsExactlyEligible ==
  StatisticsCalled =>
    /\ statistics.kind = "returned"
    /\ LET s == statistics.value
           tgs == tags.value
           categories == {tgs[i].pos : i \in 1..Len(tgs)} \cup DictKeys(s.pos_counts)
       IN /\ \A p \in categories :
               IF EligibleOf(tgs, p) > 0
                 THEN DictHas(s.pos_counts, p)
                      /\ DictGet(s.pos_counts, p, 0) = EligibleOf(tgs, p)
                 ELSE ~DictHas(s.pos_counts, p)
          /\ Cardinality(DictKeys(s.pos_counts)) = Len(s.pos_counts)
          /\ s.total_words = SumValues(s.pos_counts)
          /\ s.unique_pos_tags = Cardinality(DictKeys(s.pos_counts))
          /\ ([i \in 1..Len(tgs) |-> tgs[i].pos] = <<"DET", "ADJ", "NOUN", "VERB">>
                /\ Eligible(tgs) = 1..4) =>
               /\ s.total_words = 4
               /\ s.unique_pos_tags = 4
               /\ \A p \in {"DET", "ADJ", "NOUN", "VERB"} :
                    /\ DictGet(s.pos_counts, p, 0) = 1
                    /\ DictGet(s.pos_percentages, p, 0) = 25 * PctScale

\* the statistics of "The quick fox jumps"
C2_Witness ==
  /\ statistics.kind = "returned"
  /\ [i \in 1..Len(tags.value) |-> tags.value[i].word] = <<"The", "quick", "fox", "jumps">>
  /\ statistics.value.total_words = 4

\* C3: for tags that are empty or hold only whitespace and punctuation,
\* get_pos_statistics returns total_words 0, empty pos_counts, empty
\* pos_percentages and unique_pos_tags 0, and raises no ZeroDivisionError.
C3_EmptyStatistics ==
  (StatisticsCalled /\ Eligible(tags.value) = {}) =>
    statistics = Returned([total_words |-> 0,
                           pos_counts |-> EmptyDict,
                           pos_percentages |-> EmptyDict,
                           unique_pos_tags |-> 0])

\* the statistics of the empty token sequence
C3_Witness ==
  /\ tags = Returned(<<>>)
  /\ statistics.kind = "returned"
  /\ statistics.value.total_words = 0

\* the statistics of a sequence of whitespace and punctuation only
C3_WitnessOnlyPunctuation ==
  /\ statistics.kind = "returned"
  /\ Len(tags.value) > 1
  /\ Eligible(tags.value) = {}

-----------------------------------------------------------------------------
(* Properties of extract_phrases. *)

PhrasesCalled == phrases.kind # "not_called"

\* the elements of a finite set of numbers in increasing order
RECURSIVE Ascending(_)
Ascending(S) ==
  IF S = {} THEN <<>>
  ELSE LET least == CHOOSE x \in S : \A y \in S : x <= y
       IN <<least>> \o Ascending(S \ {least})

\* the positions of the tokens tagged VERB, in token order
VerbPositions(d) == Ascending({i \in 1..Len(d) : d[i].pos = "VERB"})

\* the positions of the auxiliaries of the verb at position i
AuxPositions(d, i) ==
  Ascending({j \in 1..Len(d) :
               j # i /\ d[j].head = i /\ d[j].dep \in {"aux", "auxpass"}})

\* the entries of a phrase list of one type, in the order of the list
OfType(ph, type) == SelectSeq(ph, LAMBDA x : x.type = type)

\* C4: the text of the verb phrase of a verb is the single-space join of the
\* surface forms of its children labelled aux or auxpass, in token order,
\* followed by the verb itself; its root is the verb's text; "is" (aux of
\* "running") and "running" give text "is running", root "running".
C4_VerbPhraseText ==
  PhrasesCalled =>
    /\ phrases.kind = "returned"
    /\ LET vps == OfType(phrases.value, "verb_phrase")
           verbs == VerbPositions(doc)
       IN /\ Len(vps) = Len(verbs)
          /\ \A k \in 1..Len(verbs) :
               LET aux == AuxPositions(doc, verbs[k])
                   words == [a \in 1..Len(aux) |-> doc[aux[a]].text]
                              \o <<doc[verbs[k]].text>>
               IN /\ vps[k].text = Join(words, " ")
                  /\ vps[k].root = doc[verbs[k]].text
          /\ (/\ Len(doc) = 2
              /\ doc[1].text = "is" /\ doc[1].dep = "aux" /\ doc[1].head = 2
              /\ doc[2].text = "running" /\ doc[2].pos = "VERB") =>
               /\ Len(vps) = 1
               /\ vps[1].text = "is running"
               /\ vps[1].root = "running"

\* a verb between its two auxiliaries: both come before it in the text
C4_Witness ==
  /\ phrases.kind = "returned"
  /\ Len(doc) = 3
  /\ doc[2].pos = "VERB"
  /\ doc[1].head = 2 /\ doc[3].head = 2
  /\ \E k \in 1..Len(phrases.value) : phrases.value[k].text = "been is running"

\* C5: extract_phrases emits one verb_phrase entry per token tagged VERB, in
\* token order and after all noun phrases; without a VERB token there is no
\* verb phrase, and the noun phrases are there all the same.
C5_OneVerbPhrasePerVerb ==
  PhrasesCalled =>
    /\ phrases.kind = "returned"
    /\ LET ph == phrases.value
           verbs == VerbPositions(doc)
           nouns == Len(noun_chunks)
       IN /\ Len(ph) = nouns + Len(verbs)
          /\ \A k \in 1..nouns : ph[k].type = "noun_phrase"
          /\ \A k \in 1..Len(verbs) :
               /\ ph[nouns + k].type = "verb_phrase"
               /\ ph[nouns + k].root = doc[verbs[k]].text
               /\ ph[nouns + k].end = verbs[k]
          /\ (verbs = <<>>) =>
               /\ OfType(ph, "verb_phrase") = <<>>
               /\ Len(OfType(ph, "noun_phrase")) = nouns

\* a document without a verb whose noun chunks are reported
C5_Witness ==
  /\ phrases.kind = "returned"
  /\ VerbPositions(doc) = <<>>
  /\ Len(doc) > 1
  /\ noun_chunks # <<>>
  /\ Len(phrases.value) = Len(noun_chunks)

\* C6: the span of a verb phrase is the verb token alone: start is the verb's
\* index and end is start + 1, whatever auxiliaries the text holds.
C6_VerbPhraseSpan ==
  PhrasesCalled =>
    /\ phrases.kind = "returned"
    /\ LET vps == OfType(phrases.value, "verb_phrase")
           verbs == VerbPositions(doc)
       IN /\ Len(vps) = Len(verbs)
          /\ \A k \in 1..Len(verbs) :
               /\ vps[k].start = verbs[k] - 1
               /\ vps[k].end = vps[k].start + 1

\* a verb phrase of three words, an auxiliary on each side of the verb
C6_Witness ==
  /\ phrases.kind = "returned"
  /\ \E k \in 1..Len(phrases.value) :
       /\ phrases.value[k].type = "verb_phrase"
       /\ phrases.value[k].text = "is been running"
       /\ phrases.value[k].start = 1
       /\ phrases.value[k].end = 2

\* C7: the noun_phrase entries are the chunks the collaborator reported, one
\* per chunk and in its order, with the chunk's text, root token text, start
\* and end unchanged.
C7_NounPhrasesRelayed ==
  PhrasesCalled =>
    /\ phrases.kind = "returned"
    /\ LET nps == OfType(phrases.value, "noun_phrase") IN
         /\ Len(nps) = Len(noun_chunks)
         /\ \A k \in 1..Len(noun_chunks) :
              /\ nps[k] = phrases.value[k]
              /\ nps[k] = [text |-> noun_chunks[k].text,
                           type |-> "noun_phrase",
                           root |-> doc[noun_chunks[k].root].text,
                           start |-> noun_chunks[k].start,
                           end |-> noun_chunks[k].end]

\* two chunks reported for a document that also has a verb
C7_Witness ==
  /\ phrases.kind = "returned"
  /\ Len(noun_chunks) = 2
  /\ noun_chunks[1].text = "The fox"
  /\ VerbPositions(doc) # <<>>

-----------------------------------------------------------------------------
(* Properties of analyze_sentence_structure. *)

StructureCalled == structure.kind # "not_called"

\* the positions of the tokens labelled ROOT
RootPositions(d) == {i \in 1..Len(d) : d[i].dep = "ROOT"}

\* C8: analyze_sentence_structure reports the first token labelled ROOT and
\* its coarse POS; when no token is labelled ROOT, in an empty sequence or in
\* a non-empty one, it returns a null root and a null root_pos and does not
\* fail.
C8_RootOrNull ==
  StructureCalled =>
    /\ structure.kind = "returned"
    /\ IF RootPositions(doc) # {}
         THEN LET first == CHOOSE i \in RootPositions(doc) :
                             \A j \in RootPositions(doc) : i <= j
              IN /\ structure.value.root = Some(doc[first].text)
                 /\ structure.value.root_pos = Some(doc[first].pos)
         ELSE /\ structure.value.root = None
              /\ structure.value.root_pos = None

\* C9: for the empty token sequence analyze_sentence_structure returns a null
\* root, a null root_pos, no dependencies and sentence_length 0, and does not
\* raise.
C9_EmptyStructure ==
  (StructureCalled /\ Len(doc) = 0) =>
    structure = Returned([root |-> None,
                          root_pos |-> None,
                          dependencies |-> <<>>,
                          sentence_length |-> 0])

\* the structure of the empty document
C9_Witness ==
  /\ doc = <<>>
  /\ structure.kind = "returned"
  /\ structure.value.sentence_length = 0

\* C10: in a result of analyze_sentence_structure, sentence_length is the
\* number of tokens, whitespace and punctuation included, so it exceeds
\* total_words of get_pos_statistics by the number of such tokens; and
\* dependencies holds one record per token, in token order, with the token's
\* word, dependency label, head's surface text and coarse POS.
C10_LengthAndDependencies ==
  structure.kind = "returned" =>
    LET r == structure.value IN
      /\ r.sentence_length = Len(doc)
      /\ Len(r.dependencies) = Len(doc)
      /\ \A i \in 1..Len(doc) :
           /\ r.dependencies[i].word = doc[i].text
           /\ r.dependencies[i].dep = doc[i].dep
           /\ r.dependencies[i].pos = doc[i].pos
           /\ \E h \in 1..Len(doc) :
                /\ h = doc[i].head
                /\ r.dependencies[i].head = doc[h].text
      /\ statistics.kind = "returned" =>
           r.sentence_length =
             statistics.value.total_words
               + Cardinality({i \in 1..Len(doc) : doc[i].is_space \/ doc[i].is_punct})

\* a document with whitespace and punctuation: four tokens, two words
C10_Witness ==
  /\ structure.kind = "returned"
  /\ statistics.kind = "returned"
  /\ structure.value.sentence_length = 4
  /\ statistics.value.total_words = 2
  /\ \E i \in 1..Len(doc) : doc[i].is_space
  /\ \E i \in 1..Len(doc) : doc[i].is_punct

-----------------------------------------------------------------------------
(* Properties of the construction of a tagger. *)

\* the model that supported_languages names for the language
ModelOf(language) == DictGet(supported_languages, language, "en_core_web_sm")

\* a tagger was asked for in a language whose model the machine lacks
ModelUnavailable ==
  /\ requested # None
  /\ Hashable(requested[1])
  /\ ModelOf(requested[1]) \notin installed

EnglishTagger == Tagger("en", Some("en_core_web_sm"))

\* the tags, once asked for, are those of the English model
TaggedInEnglish ==
  tags.kind # "not_called" =>
    \E text \in Texts, include_confidence \in BOOLEAN :
      tags = Returned(tag_text(nlp("en_core_web_sm", text), include_confidence))

\* C12: when the model of the requested language cannot be loaded,
\* _load_model loads the English model and sets the language of the tagger
\* to "en", and a later tag_text returns the tags of the English model.
C12_FallbackToEnglish ==
  ModelUnavailable => (tagger = Returned(EnglishTagger) /\ TaggedInEnglish)

\* C12, amended: the fallback holds on a machine that has the English model;
\* on a machine without it the OSError of the second spacy.load leaves the
\* constructor and there is no tagger.
C12_FallbackWhenEnglishInstalled ==
  ModelUnavailable =>
    IF "en_core_web_sm" \in installed
      THEN tagger = Returned(EnglishTagger) /\ TaggedInEnglish
      ELSE tagger = Raised("OSError")

\* French asked for on a machine with the English model only, a text tagged
C12_Witness ==
  /\ requested = Some("fr")
  /\ installed = {"en_core_web_sm"}
  /\ tagger = Returned(EnglishTagger)
  /\ tags.kind = "returned"
  /\ Len(tags.value) = 2

-----------------------------------------------------------------------------
(* Properties of the confidence of a tag. *)

\* C17: every tag that tag_text returns with include_confidence=True has a
\* confidence that is not None and lies in [0, 1] (0 to 10 tenths), whatever
\* probability the token carries.
C17_ConfidenceInUnitInterval ==
  (tags.kind = "returned" /\ tags.value = tag_text(doc, TRUE)) =>
    \A i \in 1..Len(tags.value) :
      /\ tags.value[i].confidence # None
      /\ tags.value[i].confidence[1] >= 0
      /\ tags.value[i].confidence[1] <= 10

-----------------------------------------------------------------------------
(* Properties of the web service. *)

\* the request has been answered with status 200
Answered(r) == req[r].pc = "done" /\ req[r].result.status = 200

\* the model a tagger of the language works with on the machine of the
\* service: the model of the language, English when that is not installed
OwnModel(language) ==
  IF ModelOf(language) \in installed THEN ModelOf(language) ELSE "en_core_web_sm"

\* C11: under every interleaving of the requests, the tags of an answered
\* request are those of the model of the request's own language.
C11_TagsOfOwnLanguage ==
  \A r \in Requests :
    (/\ Answered(r)
     /\ req[r].route = "/api/tag"
     /\ Hashable(req[r].data[1].language)) =>
      req[r].result.body.tags =
        tag_text(nlp(OwnModel(req[r].data[1].language), req[r].data[1].text[1]),
                 TRUE)

\* the fields of the response that the body of the request asks for
FieldsAsked(data) ==
  {"text", "language", "tags"}
    \cup (IF data.include_stats THEN {"statistics"} ELSE {})
    \cup (IF data.include_phrases THEN {"phrases"} ELSE {})
    \cup (IF data.include_structure THEN {"structure"} ELSE {})

\* C14: a request during which the collaborator failed, at whichever step, is
\* answered with status 500 and a body that holds the 'error' field only; and
\* a request answered with status 200 holds every field it asked for, never a
\* part of them.
C14_FailureIsGeneric ==
  \A r \in Requests :
    /\ req[r].failed # None =>
         /\ req[r].pc = "done"
         /\ req[r].result.status = 500
         /\ DOMAIN req[r].result.body = {"error"}
    /\ (Answered(r) /\ req[r].route = "/api/tag") =>
         DOMAIN req[r].result.body = FieldsAsked(req[r].data[1])

\* the collaborator failed at the last step of a request that asked for
\* everything, when tags, statistics and phrases were in the response
C14_Witness ==
  \E r \in Requests :
    /\ req[r].failed = Some("structure")
    /\ DOMAIN req[r].response = {"text", "language", "tags", "statistics", "phrases"}
    /\ req[r].result.status = 500

\* C15: requests handled one after the other, with the same text, language
\* and flags, and during which the collaborator did not fail, get the same
\* answer.
C15_SameBodySameAnswer ==
  \A r1, r2 \in Requests :
    (/\ req[r1].pc = "done" /\ req[r2].pc = "done"
     /\ req[r1].data = req[r2].data
     /\ req[r1].failed = None /\ req[r2].failed = None) =>
      req[r1].result = req[r2].result

-----------------------------------------------------------------------------
(* Properties of the failures of the three operations. *)

\* a token of the document names a head outside the document
Malformed(d) == \E i \in 1..Len(d) : d[i].head \notin 1..Len(d)

\* C13: get_pos_statistics, extract_phrases and analyze_sentence_structure
\* fail only on a malformed document, and then with a condition of their own,
\* "malformed input".
C13_FailOnlyOnMalformedInput ==
  \A outcome \in {statistics, phrases, structure} :
    outcome.kind = "raised" =>
      (Malformed(doc) /\ outcome.exception = "MalformedInput")

-----------------------------------------------------------------------------
(* Properties of the frequency charts. *)

\* the position of the first token of the category that is counted, one that
\* is neither whitespace nor punctuation
FirstCounted(d, p) ==
  CHOOSE i \in 1..Len(d) :
    /\ d[i].pos = p /\ ~d[i].is_space /\ ~d[i].is_punct
    /\ \A j \in 1..(i - 1) : ~(d[j].pos = p /\ ~d[j].is_space /\ ~d[j].is_punct)

\* the categories are those of the counted tokens of the document, each with
\* its count, by descending count, and categories of equal count in the order
\* of their first counted tokens
ByFrequencyThenFirstSeen(cats, counts, d) ==
  /\ Len(cats) = Len(counts)
  /\ {cats[k] : k \in 1..Len(cats)} =
       {d[i].pos : i \in {i \in 1..Len(d) : ~d[i].is_space /\ ~d[i].is_punct}}
  /\ \A k \in 1..Len(cats) :
       counts[k] = Cardinality({i \in 1..Len(d) :
                      d[i].pos = cats[k] /\ ~d[i].is_space /\ ~d[i].is_punct})
  /\ \A j, k \in 1..Len(cats) :
       j < k =>
         \/ counts[j] > counts[k]
         \/ /\ counts[j] = counts[k]
            /\ FirstCounted(d, cats[j]) < FirstCounted(d, cats[k])

\* C16: the bar chart, the bar of the dashboard and the printed distribution
\* list the categories by descending frequency, and categories of equal
\* frequency in the order in which they are first seen among the counted
\* tokens of the document.
C16_TiesKeepFirstSeenOrder ==
  /\ bar_chart.kind = "returned" =>
       ByFrequencyThenFirstSeen(bar_chart.value.x, bar_chart.value.y, doc)
  /\ dashboard.kind = "returned" =>
       ByFrequencyThenFirstSeen(dashboard.value.bar.x, dashboard.value.bar.y, doc)
  /\ printed.kind = "returned" =>
       /\ ByFrequencyThenFirstSeen([k \in 1..Len(printed.value) |-> printed.value[k].pos],
                                   [k \in 1..Len(printed.value) |-> printed.value[k].count],
                                   doc)
       /\ \A j, k \in 1..Len(printed.value) :
            j < k => printed.value[j].percentage >= printed.value[k].percentage

\* DET ADJ NOUN NOUN: the most frequent category comes last in the document
\* and first in the charts, the two tied ones follow in document order
C16_Witness ==
  /\ Len(doc) = 4
  /\ bar_chart.kind = "returned"
  /\ dashboard.kind = "returned"
  /\ printed.kind = "returned"
  /\ bar_chart.value = [x |-> <<"NOUN", "DET", "ADJ">>, y |-> <<2, 1, 1>>]
  /\ dashboard.value.bar = bar_chart.value
  /\ dashboard.value.pie.labels = <<"DET", "ADJ", "NOUN">>
  /\ printed.value[2].pos = "DET"
  /\ printed.value[3].pos = "ADJ"

-----------------------------------------------------------------------------
(* Properties of the sample database. *)

\* the place of the stored sample with the id
StoredAt(sample_id) ==
  CHOOSE i \in 1..Len(StoredSamples) : StoredSamples[i].id = sample_id

\* the list holds stored samples only, all of them for which the field has
\* the value and no other, in the order of the store
ExactlyMatching(list, field, value) ==
  /\ \A k \in 1..Len(list) :
       /\ \E i \in 1..Len(StoredSamples) : list[k] = SampleDict(StoredSamples[i])
       /\ list[k][field] = value
  /\ \A i \in 1..Len(StoredSamples) :
       StoredSamples[i][field] = value =>
         \E k \in 1..Len(list) : list[k] = SampleDict(StoredSamples[i])
  /\ \A j, k \in 1..Len(list) :
       j < k => StoredAt(list[j].id) < StoredAt(list[k].id)

\* C19: get_samples_by_domain and get_samples_by_language return exactly the
\* stored samples of the domain, respectively of the language: each returned
\* sample matches, no matching sample is missing, the stored order is kept.
C19_ExactlyTheMatchingSamples ==
  /\ by_domain.kind = "returned" =>
       ExactlyMatching(by_domain.value.value, "domain", by_domain.value.arg)
  /\ by_language.kind = "returned" =>
       ExactlyMatching(by_language.value.value, "language", by_language.value.arg)

\* the two news samples and the ten English samples, in stored order
C19_Witness ==
  /\ by_domain.kind = "returned"
  /\ by_domain.value.arg = "news"
  /\ Len(by_domain.value.value) = 2
  /\ by_domain.value.value[1].id = "news_001"
  /\ by_language.kind = "returned"
  /\ by_language.value.arg = "en"
  /\ Len(by_language.value.value) = 10

\* the ids of the store
StoredIds == {StoredSamples[i].id : i \in 1..Len(StoredSamples)}

\* C20: get_sample_by_id returns the stored sample with the id when there is
\* one and None otherwise; GET /api/samples/<id> answers 404 with 'Sample not
\* found' exactly when no stored sample has the id.
C20_SampleOrNotFound ==
  /\ by_id.kind = "returned" =>
       IF by_id.value.arg \in StoredIds
         THEN by_id.value.value =
                Some(SampleDict(StoredSamples[StoredAt(by_id.value.arg)]))
         ELSE by_id.value.value = None
  /\ sample_response.kind = "returned" =>
       /\ sample_response.value.value.status = 404
            <=> sample_response.value.arg \notin StoredIds
       /\ sample_response.value.value.status = 404 =>
            sample_response.value.value.body = [error |-> "Sample not found"]

\* an id that is not stored: None and 404
C20_Witness ==
  /\ by_id.kind = "returned"
  /\ by_id.value.arg = "nonexistent"
  /\ by_id.value.value = None
  /\ sample_response.kind = "returned"
  /\ sample_response.value.arg = "nonexistent"
  /\ sample_response.value.value.status = 404

\* an id that is stored: the sample and 200
C20_WitnessFound ==
  /\ by_id.kind = "returned"
  /\ by_id.value.arg = "news_001"
  /\ by_id.value.value # None
  /\ sample_response.kind = "returned"
  /\ sample_response.value.arg = "news_001"
  /\ sample_response.value.value.status = 200

-----------------------------------------------------------------------------
(* Properties of search_samples. *)

\* q2 is q1 in another letter casing: q1.upper(), q1.lower(), or q1 with
\* some of its letters in the other case
CaseVariant(q1, q2) ==
  \/ q2 = upper(q1)
  \/ q2 = lower(q1)
  \/ /\ Len(q1) = Len(q2)
     /\ \A k \in 1..Len(q1) : q2[k] = q1[k] \/ lower_char(q2[k]) = lower_char(q1[k])

BothSearched == searched.kind = "returned" /\ searched_again.kind = "returned"

\* C21: two searches whose queries differ in letter casing only return the
\* same samples.
C21_CaseInsensitive ==
  (BothSearched /\ CaseVariant(searched.value.arg, searched_again.value.arg)) =>
    searched.value.value = searched_again.value.value

\* C23: search_samples returns exactly the stored samples whose title or
\* description contains the query.
C23_TitleOrDescriptionOnly ==
  searched.kind = "returned" =>
    LET query == lower(searched.value.arg) IN
      searched.value.value =
        SampleDicts(SelectSeq(StoredSamples, LAMBDA sample :
          \/ Contains(query, lower(sample.title))
          \/ Contains(query, lower(sample.description))))

-----------------------------------------------------------------------------
(* Properties of the file and of the listing. *)

SampleFields ==
  {"id", "title", "text", "domain", "language", "difficulty", "description"}

\* C22: the samples loaded from the file that save_to_file wrote are the
\* samples of the database that was saved: as many, in the same order, every
\* field equal.
C22_SaveLoadRoundTrip ==
  (saved.kind = "returned" /\ reloaded.kind = "returned") =>
    LET before == saved.value.arg
        after == reloaded.value.value
    IN /\ Len(after) = Len(before)
       /\ \A k \in 1..Len(before) :
            \A field \in SampleFields : after[k][field] = before[k][field]

\* three samples, one with quotes, backslashes and a line feed, went through
\* the file
C22_Witness ==
  /\ saved.kind = "returned"
  /\ reloaded.kind = "returned"
  /\ Len(saved.value.arg) = 3
  /\ saved.value.arg[2] = QuotedSample
  /\ reloaded.value.value[2].text = QuotedSample.text
  /\ saved.value.value.samples[2].text # json_dump_str(<<>>)
  /\ Len(saved.value.value.samples[2].text) > Len(QuotedSample.text) + 2

\* the samples of the primary criterion of a listing: a parameter counts
\* when it is given and not empty
PrimarySelection(args) ==
  IF TruthySearch(args.search) THEN search_samples(StoredSamples, args.search[1])
  ELSE IF TruthyParam(args.domain)
    THEN SampleDicts(SelectSeq(StoredSamples, LAMBDA s : s.domain = args.domain[1]))
  ELSE IF TruthyParam(args.language)
    THEN SampleDicts(SelectSeq(StoredSamples, LAMBDA s : s.language = args.language[1]))
  ELSE SampleDicts(StoredSamples)

\* C28: GET /api/samples answers the samples of one primary criterion, the
\* search before the domain before the language before all samples, of which
\* it keeps those of the difficulty when one is given; total is the number of
\* samples answered.
C28_PrecedenceThenDifficulty ==
  listing.kind = "returned" =>
    LET args == listing.value.arg
        response == listing.value.value
        primary == PrimarySelection(args)
    IN /\ response.status = 200
       /\ response.body.total = Len(response.body.samples)
       /\ \A k \in 1..Len(primary) :
            (\E i \in 1..Len(response.body.samples) :
               response.body.samples[i] = primary[k])
              <=> (TruthyParam(args.difficulty) =>
                     primary[k].difficulty = args.difficulty[1])
       /\ \A i \in 1..Len(response.body.samples) :
            \E k \in 1..Len(primary) : response.body.samples[i] = primary[k]
       /\ \A i, j \in 1..Len(response.body.samples) :
            i < j => StoredAt(response.body.samples[i].id)
                       < StoredAt(response.body.samples[j].id)

\* a search, a domain, a language and a difficulty together: the two samples
\* of the search that have the difficulty, none of the domain or the language
C28_Witness ==
  /\ listing.kind = "returned"
  /\ TruthySearch(listing.value.arg.search)
  /\ TruthyParam(listing.value.arg.domain)
  /\ TruthyParam(listing.value.arg.language)
  /\ TruthyParam(listing.value.arg.difficulty)
  /\ listing.value.value.body.total = 2
  /\ \A i \in 1..2 : listing.value.value.body.samples[i].domain = "news"

-----------------------------------------------------------------------------
(* Properties of the dependency tree and of the three counts. *)

\* the number of tags that are not whitespace, and of those that are not the
\* root either
NonSpace(tgs) == Cardinality({k \in 1..Len(tgs) : ~tgs[k].is_space})

NonSpaceNonRoot(tgs) ==
  Cardinality({k \in 1..Len(tgs) : ~tgs[k].is_space /\ tgs[k].dep # "ROOT"})

\* C24: create_dependency_tree returns, for any tags, a figure with one node
\* for every tag that is not whitespace and one edge for every such tag whose
\* dep is not ROOT; it does not raise.
C24_TreeOfEveryTagList ==
  dependency_tree.kind # "not_called" =>
    /\ dependency_tree.kind = "returned"
    /\ Len(dependency_tree.value.markers) = NonSpace(tags.value)
    /\ Len(dependency_tree.value.lines) = NonSpaceNonRoot(tags.value)

\* C30: for the same tokens, get_pos_statistics, the statistics of
\* enhanced_pos_tagging and the data of export_visualization_data hold the
\* same total_words, the same pos_counts and the same unique_pos_tags.
C30_ThreeCountsAgree ==
  (/\ statistics.kind = "returned"
   /\ enhanced.kind = "returned"
   /\ exported.kind = "returned") =>
    /\ statistics.value.total_words = enhanced.value.total_words
    /\ statistics.value.total_words = exported.value.statistics.total_words
    /\ statistics.value.pos_counts = enhanced.value.pos_counts
    /\ statistics.value.pos_counts = exported.value.pos_counts
    /\ statistics.value.unique_pos_tags = enhanced.value.unique_pos_tags
    /\ statistics.value.unique_pos_tags = exported.value.statistics.unique_pos_tags

\* the three have counted a text with a punctuation mark, a space and two
\* words of one category
C30_Witness ==
  /\ statistics.kind = "returned"
  /\ enhanced.kind = "returned"
  /\ exported.kind = "returned"
  /\ \E i, j \in 1..Len(doc) : doc[i].is_punct /\ doc[j].is_space
  /\ exported.value.statistics.total_words = 2
  /\ exported.value.statistics.unique_pos_tags = 1
  /\ enhanced.value.pos_counts = statistics.value.pos_counts

-----------------------------------------------------------------------------
(* Properties of the tagger that the requests share. *)

\* no request is being handled
Quiescent == \A r \in Requests : req[r].pc \in {"idle", "done"}

\* the model that the language of the tagger names: the model mapped from
\* it, the English model when nothing is mapped from it
NamedModel(language) ==
  IF Hashable(language) THEN ModelOf(language) ELSE "en_core_web_sm"

\* C25: when the requests, of /api/tag and /api/batch_tag, answered or
\* failed, have all been handled, the model of the tagger is the one that its
\* language names.
C25_ModelOfTaggerLanguage ==
  Quiescent => tagger.value.nlp = Some(NamedModel(tagger.value.language))

\* C26: the tags, the phrases and the structure of one answer of /api/tag are
\* those of one model, under every interleaving of the requests.
C26_OneModelPerAnswer ==
  \A r \in Requests :
    (Answered(r) /\ req[r].route = "/api/tag") =>
      \E model \in ServiceModels :
        LET data == req[r].data[1]
            body == req[r].result.body
            d == nlp(model, data.text[1])
        IN /\ body.tags = tag_text(d, TRUE)
           /\ data.include_phrases =>
                \E chunks \in ChunkLists(d) :
                  body.phrases = extract_phrases(d, chunks).value
           /\ data.include_structure =>
                body.structure = analyze_sentence_structure(d).value

\* the request r is received in this step with a body that lacks what its
\* handler requires
ReceivedWithout(r) ==
  /\ req[r].pc = "idle"
  /\ req'[r].pc # "idle"
  /\ \/ req'[r].route = "/api/tag" /\ req'[r].data[1].text = None
     \/ req'[r].route = "/api/batch_tag" /\ req'[r].data[1].texts = None

\* the answer 400 with the message
Refused(message) == [status |-> 400, body |-> [error |-> message]]

KeptItems(texts) ==
  SelectSeq(texts, LAMBDA item :
    \/ item.type = "str"
    \/ item.type = "dict" /\ "text" \in DOMAIN item.value)

\* C29: an answered request of /api/batch_tag holds one result for every item
\* that is a string or a dict with a text, in the order of the items, and
\* none for another item; total is the number of results; a result holds
\* statistics exactly when include_stats is set.
C29_OneResultPerKeptItem ==
  \A r \in Requests :
    (Answered(r) /\ req[r].route = "/api/batch_tag") =>
      LET data == req[r].data[1]
          body == req[r].result.body
          kept == KeptItems(data.texts[1])
      IN /\ Len(body.results) = Len(kept)
         /\ body.total = Len(body.results)
         /\ \A k \in 1..Len(kept) :
              /\ body.results[k].text =
                   (IF kept[k].type = "str" THEN kept[k].value ELSE kept[k].value.text)
              /\ \E model \in ServiceModels :
                   body.results[k].tags = tag_text(nlp(model, body.results[k].text), TRUE)
              /\ ("statistics" \in DOMAIN body.results[k]) <=> data.include_stats

\* four items submitted, two results with statistics answered
C29_Witness ==
  \E r \in Requests :
    /\ Answered(r)
    /\ req[r].route = "/api/batch_tag"
    /\ req[r].data[1].include_stats
    /\ Len(req[r].data[1].texts[1]) = 4
    /\ req[r].result.body.total = 2
    /\ req[r].result.body.results[1].text = "is running"
    /\ req[r].result.body.results[2].text = ""
    /\ "statistics" \in DOMAIN req[r].result.body.results[2]

====
